---- MODULE Spec2Model ----
(***************************************************************************)
(* State-machine model of the pope-game simulation loop: the per-frame     *)
(* update of main.js / GameEngine.updatePlaying, Player.update, the        *)
(* EnemyManager (enemy update, stomp-vs-damage arbitration, enemy          *)
(* projectiles), EnemyBase / EnemyWalker and the CollisionDetection        *)
(* platform resolution.                                                    *)
(*                                                                         *)
(* Numbers: the source computes in pixels with IEEE doubles.  The model    *)
(* uses fixed point, one unit = 1/100 pixel (U), so that gravity 0.7,      *)
(* walker speed 2.5, acceleration 0.8 ... are exact integers.  The two     *)
(* multiplicative formulas (friction *0.65, wall slide *0.85) truncate     *)
(* toward zero to the unit.                                                *)
(***************************************************************************)
EXTENDS Integers, Sequences, FiniteSets, TLC

\* ------------------------------------------------------------------ bounds
\* frames simulated per behaviour
MaxFrames == 10
\* keyboard events delivered per behaviour
MaxKeyEvents == 3
\* addProjectile calls per behaviour
MaxEnemyShots == 2
\* random walker jumps (Math.random() < 0.01) per behaviour
MaxWalkerJumps == 1
\* resolutions of one entity against one platform per behaviour
MaxResolutions == 2
\* update() calls of the enemy that takes damage
MaxEnemyUpdates == 32
\* frames simulated in the scenario that follows a dying enemy
MaxLifeFrames == 33
\* frames simulated in the scenario that follows the player's death animation
MaxDeathFrames == 124
\* keyboard events delivered in that scenario
MaxDeathKeyEvents == 1
\* calls of one Physics function per behaviour
MaxPhysicsCalls == 46
\* getNearbyObjects queries per grid
MaxQueries == 1
\* presses of the pause key per behaviour
MaxPauses == 2
\* player projectiles that hit an enemy per behaviour
MaxProjectileHits == 1
\* frames simulated for the walker on patrol
MaxPatrolFrames == 24
\* frames simulated for the level with one flyer
MaxFlyerFrames == 150
\* frames simulated for the level with a breastplate
MaxPowerUpFrames == 620
\* frames simulated for the walker under fire
MaxInertFrames == 60
\* frames simulated for the player among platforms
MaxCorridorFrames == 40
\* frames of the engine's life cycle that get past the early returns
MaxEngineFrames == 4
\* presses of the Escape key per behaviour
MaxEscapes == 1
\* restarts of a level per behaviour
MaxRestarts == 1
\* EnemyManager.init calls (level loads) per behaviour
MaxLoads == 2
\* direct EnemyManager.spawnEnemy calls per behaviour
MaxSpawnCalls == 2

\* --------------------------------------------------------------- constants
U == 100
PlayerWidth == 5600
PlayerHeight == 11200
coyoteTimeMax == 6
physGravity == 70
terminalVelocity == 1500
playerMaxSpeed == 700
playerAcceleration == 80
playerFrictionPct == 35
playerJumpPower == -1500
wallSlideSpeed == 200
wallFrictionPct == 85
StompBounce == -1800
StompVerticalTolerance == 3000
StompAlignTolerance == 1000
StompMinSpeedY == -200
StompScore == 100
ProjectileScore == 50
StompInvulnerability == 10
DamageInvulnerability == 60
KnockbackSpeedX == 700
KnockbackSpeedY == -800
DefaultProjectileDamage == 10
maxEnemies == 50
maxInvulnerabilityTime == 30
deathDuration == 30
flashDuration == 10
maxJumpCooldown == 30
WalkerJumpPower == -1200
WalkerSpeed == 250
DeathAnimationDuration == 120
DeathFallFrames == 60
DeathFallStep == 500
KillPlaneMargin == 10000
maxProjectiles == 3
maxChargeTime == 60
shotCooldown == 15
ProjectileWidth == 8
ProjectileBaseLifetime == 60
ProjectileMinX == -100
ProjectileMaxX == 2000
ProjectileMaxY == 1000
gridSize == 128
FlyerSpeed == 250
DetectionRange == 20000
diveSpeed == 1000
diveRecoveryTime == 60
FlyerGroundLevel == 57600
FlyerScreenEdge == 160000
BreastplateDuration == 600
IdleThreshold == 50
LongIdleFrames == 300
BounceCap == -3500
EdgeProbeDepth == 5000

\* ----------------------------------------------------------------- helpers
Abs(n) == IF n < 0 THEN -n ELSE n
Min(a, b) == IF a < b THEN a ELSE b
Max(a, b) == IF a > b THEN a ELSE b
\* a * pct / 100 rounded toward zero (the fixed-point image of a * 0.pct)
MulPct(a, pct) == IF a >= 0 THEN (a * pct) \div 100 ELSE -(((-a) * pct) \div 100)

\* ----------------------------------------------------------------- Physics
\* variant: no terminal velocity
applyGravityNoCap(e) == [e EXCEPT !.speedY = e.speedY + physGravity]

\* Physics.applyGravity(entity, multiplier = 1)
applyGravity(e) ==
    LET v == e.speedY + physGravity
    IN [e EXCEPT !.speedY = IF v > terminalVelocity THEN terminalVelocity ELSE v]

\* Physics.applyWallSlide(entity, touchingWall)
applyWallSlide(e, touchingWall) ==
    IF touchingWall /\ e.speedY > 0
    THEN LET v == MulPct(e.speedY, wallFrictionPct)
         IN [e EXCEPT !.speedY = IF v > wallSlideSpeed THEN wallSlideSpeed ELSE v]
    ELSE e

\* variant: friction never snaps a small speed to 0
applyMovementNoSnap(e, inputDirection) ==
    LET v == IF inputDirection # 0
             THEN e.speedX + inputDirection * playerAcceleration
             ELSE MulPct(e.speedX, 100 - playerFrictionPct)
    IN [e EXCEPT !.speedX = Max(-playerMaxSpeed, Min(playerMaxSpeed, v))]

\* Physics.applyMovement(entity, inputDirection)
applyMovement(e, inputDirection) ==
    LET v == IF inputDirection # 0
             THEN e.speedX + inputDirection * playerAcceleration
             ELSE IF Abs(e.speedX) > 10
                  THEN MulPct(e.speedX, 100 - playerFrictionPct)
                  ELSE 0
    IN [e EXCEPT !.speedX = Max(-playerMaxSpeed, Min(playerMaxSpeed, v))]

\* ------------------------------------------------------ CollisionDetection
NoCollision == [hit |-> FALSE, overlapX |-> 0, overlapY |-> 0,
                fromLeft |-> FALSE, fromTop |-> FALSE]

\* CollisionDetection.checkRectCollision(rect1, rect2)
checkRectCollision(r1, r2) ==
    IF /\ r1.x < r2.x + r2.width
       /\ r1.x + r1.width > r2.x
       /\ r1.y < r2.y + r2.height
       /\ r1.y + r1.height > r2.y
    THEN [hit |-> TRUE,
          overlapX |-> Min(r1.x + r1.width - r2.x, r2.x + r2.width - r1.x),
          overlapY |-> Min(r1.y + r1.height - r2.y, r2.y + r2.height - r1.y),
          fromLeft |-> r1.x < r2.x,
          fromTop |-> r1.y < r2.y]
    ELSE NoCollision

\* CollisionDetection.platformTypes (the records used by the levels below);
\* bouncePower is in tenths, speed in units per frame
InitPlatformTypes ==
    [solid |-> [oneWay |-> FALSE, bouncy |-> FALSE, bouncePower |-> 0,
                hasDir |-> FALSE, dirX |-> 0, dirY |-> 0, speed |-> 0],
     oneway |-> [oneWay |-> TRUE, bouncy |-> FALSE, bouncePower |-> 0,
                 hasDir |-> FALSE, dirX |-> 0, dirY |-> 0, speed |-> 0],
     platform_r_slow |-> [oneWay |-> FALSE, bouncy |-> FALSE, bouncePower |-> 0,
                          hasDir |-> TRUE, dirX |-> 1, dirY |-> 0, speed |-> 100],
     platform_d_slow |-> [oneWay |-> FALSE, bouncy |-> FALSE, bouncePower |-> 0,
                          hasDir |-> TRUE, dirX |-> 0, dirY |-> 1, speed |-> 100],
     bouncy_platform |-> [oneWay |-> FALSE, bouncy |-> TRUE, bouncePower |-> 15,
                          hasDir |-> FALSE, dirX |-> 0, dirY |-> 0, speed |-> 0],
     super_bouncy_platform |-> [oneWay |-> FALSE, bouncy |-> TRUE, bouncePower |-> 20,
                                hasDir |-> FALSE, dirX |-> 0, dirY |-> 0, speed |-> 0]]

PlatformTypeKeys == {"solid", "oneway", "platform_r_slow", "platform_d_slow",
                     "bouncy_platform",
                     "super_bouncy_platform"}

\* property names every object literal inherits from Object.prototype: a
\* lookup table[name] finds the inherited value, which is not undefined
InheritedKeys == {"constructor"}

\* the inherited value as a behaviour record: it has none of the properties
\* handlePlatformCollision and update() read
InheritedValue == [oneWay |-> FALSE, bouncy |-> FALSE, bouncePower |-> 0,
                   hasDir |-> FALSE, dirX |-> 0, dirY |-> 0, speed |-> 0]

\* variant: an unknown type falls back to the one-way record
LookupTypeOneWay(types, key) ==
    IF key \in PlatformTypeKeys THEN types[key]
    ELSE IF key \in InheritedKeys THEN InheritedValue
    ELSE types["oneway"]

\* this.platformTypes[platform.type] || this.platformTypes.solid
LookupType(types, key) ==
    IF key \in PlatformTypeKeys THEN types[key]
    ELSE IF key \in InheritedKeys THEN InheritedValue
    ELSE types["solid"]

\* variant: grounding keeps the vertical speed
setGroundedKeepSpeed(p, grounded) == [p EXCEPT !.isGrounded = grounded]

\* Player.setGrounded(grounded)
setGrounded(p, grounded) ==
    IF grounded THEN [p EXCEPT !.isGrounded = TRUE, !.speedY = 0]
    ELSE [p EXCEPT !.isGrounded = FALSE]

\* variant: the bounce is not capped
handlePlatformCollisionNoCap(types, p, plat, c) ==
    LET platType == LookupType(types, plat.type)
    IN IF platType.oneWay /\ p.speedY <= 0 THEN p
       ELSE IF platType.bouncy /\ c.fromTop /\ p.speedY > 0
       THEN [p EXCEPT !.speedY = -((Abs(p.speedY) * platType.bouncePower) \div 10)]
       ELSE IF c.overlapX < c.overlapY
       THEN LET q == [p EXCEPT !.x = IF c.fromLeft THEN plat.x - p.width
                                      ELSE plat.x + plat.width,
                               !.speedX = 0]
            IN IF ~q.isGrounded THEN applyWallSlide(q, TRUE) ELSE q
       ELSE IF c.fromTop
            THEN LET q == setGrounded([p EXCEPT !.y = plat.y - p.height], TRUE)
                 IN IF platType.hasDir
                    THEN [q EXCEPT !.x = q.x + platType.dirX * platType.speed]
                    ELSE q
            ELSE [p EXCEPT !.y = plat.y + plat.height, !.speedY = 0]

\* variant: a tie of the two overlaps is resolved horizontally
handlePlatformCollisionTie(types, p, plat, c) ==
    LET platType == LookupType(types, plat.type)
    IN IF platType.oneWay /\ p.speedY <= 0 THEN p
       ELSE IF platType.bouncy /\ c.fromTop /\ p.speedY > 0
       THEN LET v == -((Abs(p.speedY) * platType.bouncePower) \div 10)
            IN [p EXCEPT !.speedY = IF v < BounceCap THEN BounceCap ELSE v]
       ELSE IF c.overlapX <= c.overlapY
       THEN LET q == [p EXCEPT !.x = IF c.fromLeft THEN plat.x - p.width
                                      ELSE plat.x + plat.width,
                               !.speedX = 0]
            IN IF ~q.isGrounded THEN applyWallSlide(q, TRUE) ELSE q
       ELSE IF c.fromTop
            THEN LET q == setGrounded([p EXCEPT !.y = plat.y - p.height], TRUE)
                 IN IF platType.hasDir
                    THEN [q EXCEPT !.x = q.x + platType.dirX * platType.speed]
                    ELSE q
            ELSE [p EXCEPT !.y = plat.y + plat.height, !.speedY = 0]

\* CollisionDetection.handlePlatformCollision(player, platform, collision)
handlePlatformCollision(types, p, plat, c) ==
    LET platType == LookupType(types, plat.type)
    IN IF platType.oneWay /\ p.speedY <= 0 THEN p
       ELSE IF platType.bouncy /\ c.fromTop /\ p.speedY > 0
       THEN LET v == -((Abs(p.speedY) * platType.bouncePower) \div 10)
            IN [p EXCEPT !.speedY = IF v < BounceCap THEN BounceCap ELSE v]
       ELSE IF c.overlapX < c.overlapY
       THEN LET q == [p EXCEPT !.x = IF c.fromLeft THEN plat.x - p.width
                                      ELSE plat.x + plat.width,
                               !.speedX = 0]
            IN IF ~q.isGrounded THEN applyWallSlide(q, TRUE) ELSE q
       ELSE IF c.fromTop
            THEN LET q == setGrounded([p EXCEPT !.y = plat.y - p.height], TRUE)
                 IN IF platType.hasDir
                    THEN [q EXCEPT !.x = q.x + platType.dirX * platType.speed]
                    ELSE q
            ELSE [p EXCEPT !.y = plat.y + plat.height, !.speedY = 0]

\* ------------------------------------------------------------------ Player
KeyNames == {"left", "right", "up"}
NoKeys == [left |-> FALSE, right |-> FALSE, up |-> FALSE]

\* Player constructor
NewPlayer(px, py) ==
    [x |-> px, y |-> py, width |-> PlayerWidth, height |-> PlayerHeight,
     speedX |-> 0, speedY |-> 0, state |-> "idle", facingRight |-> TRUE,
     idleTimer |-> 0, isGrounded |-> FALSE, coyoteTime |-> 0,
     hasReleasedJump |-> TRUE, invulnerable |-> FALSE, invulnerabilityTime |-> 0,
     keys |-> NoKeys,
     jumps |-> 0]    \* instrumentation: calls of jump() so far

\* variant: the jump is started by the key event itself
handleKeyDownJumps(p, key) ==
    CASE key = "left" -> [p EXCEPT !.keys.left = TRUE, !.facingRight = FALSE]
      [] key = "right" -> [p EXCEPT !.keys.right = TRUE, !.facingRight = TRUE]
      [] key = "up" -> [p EXCEPT !.keys.up = TRUE, !.speedY = playerJumpPower,
                                 !.isGrounded = FALSE]
      [] key = "space" -> [p EXCEPT !.keys.space = TRUE, !.isCharging = TRUE]
      [] OTHER -> p

\* Player.handleKeyDown(key)
handleKeyDown(p, key) ==
    CASE key = "left" -> [p EXCEPT !.keys.left = TRUE, !.facingRight = FALSE]
      [] key = "right" -> [p EXCEPT !.keys.right = TRUE, !.facingRight = TRUE]
      [] key = "up" -> [p EXCEPT !.keys.up = TRUE]
      [] key = "space" -> [p EXCEPT !.keys.space = TRUE, !.isCharging = TRUE]
      [] OTHER -> p

\* Player.shoot(): the projectile is kept as what it was fired with (x0 in
\* px, y3 in thirds of a px, the charge) and its age in updates
NewProjectile(p) ==
    [x0 |-> p.x + (IF p.facingRight THEN p.width ELSE -ProjectileWidth),
     y3 |-> 3 * p.y + p.height,
     charge |-> p.chargeTime, right |-> p.facingRight, age |-> 0]

\* variant: the number of live projectiles is not looked at
shootNoLimit(p) ==
    IF p.lastShotTime > 0
    THEN p
    ELSE [p EXCEPT !.projectiles = Append(p.projectiles, NewProjectile(p)),
                   !.lastShotTime = shotCooldown]

\* Player.shoot()
shoot(p) ==
    IF Len(p.projectiles) >= maxProjectiles \/ p.lastShotTime > 0
    THEN p
    ELSE [p EXCEPT !.projectiles = Append(p.projectiles, NewProjectile(p)),
                   !.lastShotTime = shotCooldown]

\* Player.handleKeyUp(key)
handleKeyUp(p, key) ==
    CASE key = "left" -> [p EXCEPT !.keys.left = FALSE]
      [] key = "right" -> [p EXCEPT !.keys.right = FALSE]
      [] key = "up" -> [p EXCEPT !.keys.up = FALSE, !.hasReleasedJump = TRUE]
      [] key = "space" ->
            [(IF p.isCharging /\ p.chargeTime > 0
              THEN shoot([p EXCEPT !.keys.space = FALSE])
              ELSE [p EXCEPT !.keys.space = FALSE])
             EXCEPT !.isCharging = FALSE, !.chargeTime = 0]
      [] OTHER -> p

\* Player.update(): "Update projectile charging" and "Update shot cooldown"
updateCharge(p) ==
    LET charged == IF p.isCharging /\ p.lastShotTime <= 0
                   THEN [p EXCEPT !.chargeTime = Min(p.chargeTime + 1, maxChargeTime)]
                   ELSE p
    IN IF charged.lastShotTime > 0
       THEN [charged EXCEPT !.lastShotTime = charged.lastShotTime - 1]
       ELSE charged

\* a projectile's x after its age in updates, in sixtieths of a px:
\* speed = 5 + (15 - 5) * chargeTime / maxChargeTime per update
ProjectileX60(pr) ==
    60 * pr.x0 + (IF pr.right THEN 1 ELSE -1) * pr.age * (300 + 10 * pr.charge)

\* a projectile's y after its age in updates, in sixtieths of a px:
\* speedY starts at -2 and grows by 0.3 per update
ProjectileY60(pr) == 20 * pr.y3 - 120 * pr.age + 9 * pr.age * (pr.age - 1)

\* a projectile's remaining lifetime: 60 + chargePower * 60, less its age
ProjectileLifetime(pr) == ProjectileBaseLifetime + pr.charge - pr.age

RECURSIVE playerUpdateProjectilesNoExpiry(_, _, _)
\* variant: the lifetime of a projectile is not looked at
playerUpdateProjectilesNoExpiry(projs, i, hits) ==
    IF i = 0 THEN projs
    ELSE LET pr == [projs[i] EXCEPT !.age = projs[i].age + 1]
             gone == \/ i \in hits
                     \/ ProjectileX60(pr) < 60 * ProjectileMinX
                     \/ ProjectileX60(pr) > 60 * ProjectileMaxX
                     \/ ProjectileY60(pr) > 60 * ProjectileMaxY
         IN playerUpdateProjectilesNoExpiry(
                IF gone THEN SubSeq(projs, 1, i - 1) \o SubSeq(projs, i + 1, Len(projs))
                ELSE [projs EXCEPT ![i] = pr],
                i - 1, hits)

RECURSIVE playerUpdateProjectiles(_, _, _)
\* Player.updateProjectiles(), the loop from the last projectile to the
\* first; hits = the indices for which checkPlayerProjectile returns true
playerUpdateProjectiles(projs, i, hits) ==
    IF i = 0 THEN projs
    ELSE LET pr == [projs[i] EXCEPT !.age = projs[i].age + 1]
             gone == \/ i \in hits
                     \/ ProjectileLifetime(pr) <= 0
                     \/ ProjectileX60(pr) < 60 * ProjectileMinX
                     \/ ProjectileX60(pr) > 60 * ProjectileMaxX
                     \/ ProjectileY60(pr) > 60 * ProjectileMaxY
         IN playerUpdateProjectiles(
                IF gone THEN SubSeq(projs, 1, i - 1) \o SubSeq(projs, i + 1, Len(projs))
                ELSE [projs EXCEPT ![i] = pr],
                i - 1, hits)

\* Player.update() of a player that stands still on the ground: the dying
\* guard, the charge, the cooldown and the projectiles
shooterUpdate(p, hits) ==
    IF p.state = "dying" THEN p
    ELSE LET q == updateCharge(p)
         IN [q EXCEPT !.projectiles =
                playerUpdateProjectiles(q.projectiles, Len(q.projectiles), hits)]

\* Player.jump()
jump(p) == [p EXCEPT !.speedY = playerJumpPower, !.isGrounded = FALSE,
                      !.jumps = p.jumps + 1]

\* variant: the coyote window one frame longer
canJumpInclusive(p) == p.isGrounded \/ p.coyoteTime <= coyoteTimeMax

\* Player.update, "Can jump if grounded OR within coyote time"
canJump(p) == p.isGrounded \/ p.coyoteTime < coyoteTimeMax

\* variant: the jump does not consume hasReleasedJump
HandleJumpingHeld(p) ==
    IF p.keys.up /\ p.hasReleasedJump
    THEN IF canJump(p) THEN jump(p) ELSE p
    ELSE p

\* Player.update, "Handle jumping"
HandleJumping(p) ==
    IF p.keys.up /\ p.hasReleasedJump
    THEN IF canJump(p)
         THEN [jump(p) EXCEPT !.hasReleasedJump = FALSE]
         ELSE p
    ELSE p

\* Player.update, "Update coyote time"
UpdateCoyote(p) ==
    IF ~p.isGrounded THEN [p EXCEPT !.coyoteTime = p.coyoteTime + 1]
    ELSE [p EXCEPT !.coyoteTime = 0]

\* Player.update, "Keep player within level bounds"
ClampToLevel(p, lvl) ==
    LET p1 == [p EXCEPT !.x = Max(0, Min(lvl.pixelWidth - p.width, p.x))]
        p2 == IF p1.y < 0
              THEN [p1 EXCEPT !.y = 0, !.speedY = Max(0, p1.speedY)]
              ELSE p1
    IN IF p2.y > lvl.pixelHeight - p2.height
       THEN [p2 EXCEPT !.y = lvl.pixelHeight - p2.height,
                       !.speedY = Min(0, p2.speedY),
                       !.isGrounded = TRUE, !.coyoteTime = 0]
       ELSE p2

\* Player.update, "Update invulnerability"
TickInvulnerability(e) ==
    IF e.invulnerabilityTime > 0
    THEN [e EXCEPT !.invulnerabilityTime = e.invulnerabilityTime - 1,
                   !.invulnerable = (e.invulnerabilityTime - 1 > 0)]
    ELSE e

\* Player.updateState()
updateState(p) ==
    IF p.state = "dying" THEN p
    ELSE [p EXCEPT !.state =
            IF p.speedY < -IdleThreshold THEN "jumping"
            ELSE IF p.speedY > IdleThreshold /\ ~p.isGrounded THEN "falling"
            ELSE IF Abs(p.speedX) > IdleThreshold THEN "walking"
            ELSE IF p.idleTimer > LongIdleFrames THEN "longIdle"
            ELSE IF p.isGrounded THEN "idle"
            ELSE IF Abs(p.speedY) < IdleThreshold THEN "idle" ELSE "falling"]

\* Player.update(): the statements in source order, each applied to the
\* player the previous one left
PlayerUpdate(p, lvl) ==
    LET inputDirection == IF p.keys.right THEN 1
                          ELSE IF p.keys.left THEN -1 ELSE 0
        ApplyMovement(q) == [q EXCEPT !.x = q.x + q.speedX, !.y = q.y + q.speedY]
        HandleIdleTimer(q) ==
            [q EXCEPT !.idleTimer = IF q.state = "idle" THEN q.idleTimer + 1 ELSE 0]
    IN IF p.state = "dying" THEN p
       ELSE HandleIdleTimer(updateState(TickInvulnerability(ClampToLevel(
                ApplyMovement(UpdateCoyote(HandleJumping(
                    applyGravity(applyMovement(p, inputDirection))))), lvl))))

\* --------------------------------------------------------------- GameEngine
\* GameEngine constructor: playerStats, deathAnimation, currentState
NewEngine(health) ==
    [stats |-> [health |-> health, maxHealth |-> 100, lives |-> 3, score |-> 0],
     deathAnimation |-> [active |-> FALSE, timer |-> 0],
     currentState |-> "playing"]

\* variant: a call during the death animation starts the death again
playerDeathRepeated(w) ==
    [player |-> [w.player EXCEPT !.state = "dying", !.keys = NoKeys],
     engine |-> [w.engine EXCEPT !.stats.lives = w.engine.stats.lives - 1,
                                 !.deathAnimation = [active |-> TRUE, timer |-> 0]]]

\* GameEngine.playerDeath(); w = [player, engine]
playerDeath(w) ==
    IF w.engine.deathAnimation.active THEN w
    ELSE [player |-> [w.player EXCEPT !.state = "dying", !.keys = NoKeys],
          engine |-> [w.engine EXCEPT !.stats.lives = w.engine.stats.lives - 1,
                                      !.deathAnimation = [active |-> TRUE, timer |-> 0]]]

\* GameEngine.respawnPlayer()
respawnPlayer(w, lvl) ==
    [player |-> [w.player EXCEPT !.x = lvl.spawnX, !.y = lvl.spawnY,
                                 !.speedX = 0, !.speedY = 0,
                                 !.state = "idle", !.keys = NoKeys],
     engine |-> [w.engine EXCEPT !.stats.health = w.engine.stats.maxHealth,
                                 !.deathAnimation.active = FALSE]]

\* variant: the fall of the death animation shows the falling state
updateDeathAnimationFalling(w, lvl) ==
    LET t == w.engine.deathAnimation.timer + 1
        p1 == IF t < DeathFallFrames
              THEN [w.player EXCEPT !.y = w.player.y + DeathFallStep,
                                    !.speedX = MulPct(w.player.speedX, 90),
                                    !.state = "falling"]
              ELSE w.player
        w1 == [player |-> p1, engine |-> [w.engine EXCEPT !.deathAnimation.timer = t]]
    IN IF t >= DeathAnimationDuration
       THEN LET w2 == [w1 EXCEPT !.engine.deathAnimation.active = FALSE]
            IN IF w2.engine.stats.lives > 0
               THEN respawnPlayer([w2 EXCEPT !.engine.stats.health =
                                               w2.engine.stats.maxHealth], lvl)
               ELSE [w2 EXCEPT !.engine.currentState = "game_over"]
       ELSE w1

\* GameEngine.updateDeathAnimation()
updateDeathAnimation(w, lvl) ==
    LET t == w.engine.deathAnimation.timer + 1
        p1 == IF t < DeathFallFrames
              THEN [w.player EXCEPT !.y = w.player.y + DeathFallStep,
                                    !.speedX = MulPct(w.player.speedX, 90)]
              ELSE w.player
        w1 == [player |-> p1, engine |-> [w.engine EXCEPT !.deathAnimation.timer = t]]
    IN IF t >= DeathAnimationDuration
       THEN LET w2 == [w1 EXCEPT !.engine.deathAnimation.active = FALSE]
            IN IF w2.engine.stats.lives > 0
               THEN respawnPlayer([w2 EXCEPT !.engine.stats.health =
                                               w2.engine.stats.maxHealth], lvl)
               ELSE [w2 EXCEPT !.engine.currentState = "game_over"]
       ELSE w1

\* variant: a hit opens no invulnerability window
damagePlayerNoWindow(w, damage) ==
    LET w1 == [w EXCEPT !.engine.stats.health = w.engine.stats.health - damage]
    IN IF w1.engine.stats.health <= 0 THEN playerDeath(w1) ELSE w1

\* EnemyManager.damagePlayer(damage)
damagePlayer(w, damage) ==
    LET w1 == [w EXCEPT !.engine.stats.health = w.engine.stats.health - damage,
                        !.player.invulnerable = TRUE,
                        !.player.invulnerabilityTime = DamageInvulnerability]
    IN IF w1.engine.stats.health <= 0 THEN playerDeath(w1) ELSE w1

\* ------------------------------------------------- EnemyBase / EnemyWalker
NoEdgeCheck == [set |-> FALSE, x |-> 0, y |-> 0]

\* new EnemyWalker(x, y, config): EnemyBase constructor + walker defaults;
\* cfg carries the level's config overrides (health, damage, vulnerabilities)
NewWalker(id, ex, ey, cfg) ==
    [id |-> id, x |-> ex, y |-> ey, width |-> 32 * U, height |-> 32 * U,
     speedX |-> WalkerSpeed * cfg.startDirection, speedY |-> 0,
     walkSpeed |-> WalkerSpeed,
     health |-> cfg.health, maxHealth |-> cfg.health, damage |-> cfg.damage,
     invulnerable |-> FALSE, invulnerabilityTime |-> 0,
     vulnerabilities |-> cfg.vulnerabilities,
     drops |-> {"coin", "health"},
     isGrounded |-> FALSE, affectedByGravity |-> TRUE, collideWithPlatforms |-> TRUE,
     isDead |-> FALSE, deathTimer |-> 0, shouldRemove |-> FALSE, flashTimer |-> 0,
     direction |-> cfg.startDirection, turnAtEdges |-> TRUE, turnAtWalls |-> TRUE,
     patrolDistance |-> cfg.patrolDistance, startX |-> ex,
     jumpPower |-> WalkerJumpPower, jumpCooldown |-> 0,
     needsEdgeCheck |-> NoEdgeCheck]

\* EnemyBase.die()
die(e) == [e EXCEPT !.isDead = TRUE, !.deathTimer = 0, !.speedX = 0, !.speedY = 0]

\* variant: the enemy's own invulnerability does not block the hit
takeDamageAlways(e, amount, type) ==
    IF type \notin e.vulnerabilities THEN e
    ELSE IF e.isDead THEN e
    ELSE LET e1 == [e EXCEPT !.health = e.health - amount, !.flashTimer = flashDuration]
         IN IF e1.health <= 0 THEN die(e1)
            ELSE [e1 EXCEPT !.invulnerable = TRUE,
                            !.invulnerabilityTime = maxInvulnerabilityTime]

\* variant: the damage type is not checked against the vulnerabilities
takeDamageAnyType(e, amount, type) ==
    IF e.invulnerable \/ e.isDead THEN e
    ELSE LET e1 == [e EXCEPT !.health = e.health - amount, !.flashTimer = flashDuration]
         IN IF e1.health <= 0 THEN die(e1)
            ELSE [e1 EXCEPT !.invulnerable = TRUE,
                            !.invulnerabilityTime = maxInvulnerabilityTime]

\* EnemyBase.takeDamage(amount, type): the value returned
takeDamageReturns(e, amount, type) ==
    IF type \notin e.vulnerabilities THEN FALSE
    ELSE IF e.invulnerable \/ e.isDead THEN FALSE
    ELSE TRUE

\* EnemyBase.takeDamage(amount, type): the enemy afterwards
takeDamage(e, amount, type) ==
    IF type \notin e.vulnerabilities THEN e
    ELSE IF e.invulnerable \/ e.isDead THEN e
    ELSE LET e1 == [e EXCEPT !.health = e.health - amount, !.flashTimer = flashDuration]
         IN IF e1.health <= 0 THEN die(e1)
            ELSE [e1 EXCEPT !.invulnerable = TRUE,
                            !.invulnerabilityTime = maxInvulnerabilityTime]

\* EnemyWalker.turn()
turn(e) == [e EXCEPT !.direction = -e.direction, !.speedX = e.walkSpeed * (-e.direction)]

\* EnemyWalker.jump()
walkerJump(e) ==
    IF e.isGrounded /\ e.jumpCooldown <= 0
    THEN [e EXCEPT !.speedY = e.jumpPower, !.isGrounded = FALSE,
                   !.jumpCooldown = maxJumpCooldown]
    ELSE e

\* EnemyWalker.patrolPattern(); rnd: Math.random() < 0.01 this call
patrolPattern(e, rnd) ==
    LET shouldTurn == e.patrolDistance > 0 /\ Abs(e.x - e.startX) >= e.patrolDistance
        EdgeDetection(q) ==
            IF q.turnAtEdges /\ q.isGrounded
            THEN [q EXCEPT !.needsEdgeCheck =
                     [set |-> TRUE,
                      x |-> q.x + (IF q.direction > 0 THEN q.width ELSE -5 * U),
                      y |-> q.y + q.height + 5 * U]]
            ELSE q
        RandomJump(q) ==
            IF q.isGrounded /\ q.jumpCooldown <= 0 /\ rnd THEN walkerJump(q) ELSE q
        SimpleMovement(q) == IF shouldTurn THEN turn(q) ELSE q
        UpdateSpeed(q) == [q EXCEPT !.speedX = q.walkSpeed * q.direction]
    IN UpdateSpeed(SimpleMovement(RandomJump(EdgeDetection(e))))

\* EnemyWalker.updateAI() (aiType 'pattern')
updateAI(e, rnd) ==
    patrolPattern(IF e.jumpCooldown > 0
                  THEN [e EXCEPT !.jumpCooldown = e.jumpCooldown - 1] ELSE e, rnd)

\* variant: the death animation runs one update longer
enemyUpdateLate(e, rnd) ==
    LET UpdateFlash(q) ==
            IF q.flashTimer > 0 THEN [q EXCEPT !.flashTimer = q.flashTimer - 1] ELSE q
        ApplyPhysics(q) ==
            IF q.affectedByGravity /\ ~q.isGrounded THEN applyGravity(q) ELSE q
        ApplyMovement(q) == [q EXCEPT !.x = q.x + q.speedX, !.y = q.y + q.speedY]
        DeadOrAlive(q) ==
            IF q.isDead
            THEN [q EXCEPT !.deathTimer = q.deathTimer + 1,
                           !.shouldRemove =
                               q.shouldRemove \/ (q.deathTimer + 1 > deathDuration)]
            ELSE ApplyMovement(updateAI(ApplyPhysics(q), rnd))
    IN DeadOrAlive(UpdateFlash(TickInvulnerability(e)))

\* EnemyBase.update()
enemyUpdate(e, rnd) ==
    LET UpdateFlash(q) ==
            IF q.flashTimer > 0 THEN [q EXCEPT !.flashTimer = q.flashTimer - 1] ELSE q
        ApplyPhysics(q) ==
            IF q.affectedByGravity /\ ~q.isGrounded THEN applyGravity(q) ELSE q
        ApplyMovement(q) == [q EXCEPT !.x = q.x + q.speedX, !.y = q.y + q.speedY]
        DeadOrAlive(q) ==
            IF q.isDead
            THEN [q EXCEPT !.deathTimer = q.deathTimer + 1,
                           !.shouldRemove =
                               q.shouldRemove \/ (q.deathTimer + 1 >= deathDuration)]
            ELSE ApplyMovement(updateAI(ApplyPhysics(q), rnd))
    IN DeadOrAlive(UpdateFlash(TickInvulnerability(e)))

\* EnemyBase.onCollisionWithPlatform + the EnemyWalker override
onCollisionWithPlatform(e, plat, c) ==
    LET e1 == IF c.fromTop /\ e.speedY >= 0
              THEN [e EXCEPT !.y = plat.y - e.height, !.speedY = 0, !.isGrounded = TRUE]
              ELSE e
    IN IF e1.turnAtWalls /\ ~c.fromTop THEN turn(e1) ELSE e1

\* ------------------------------------------------------------ EnemyManager
\* EnemyManager.checkGroundAhead(x, y)
checkGroundAhead(plats, px, py) ==
    \E i \in 1..Len(plats) :
        /\ px >= plats[i].x /\ px <= plats[i].x + plats[i].width
        /\ py <= plats[i].y /\ py >= plats[i].y - EdgeProbeDepth

\* EnemyBase.dropLoot(): the items for the drop types whose roll succeeded
dropLoot(e, rolled) ==
    LET item(t) == [type |-> t, x |-> e.x + e.width \div 2, y |-> e.y]
    IN (IF "coin" \in e.drops \cap rolled THEN <<item("coin")>> ELSE <<>>)
       \o (IF "health" \in e.drops \cap rolled THEN <<item("health")>> ELSE <<>>)
       \o (IF "powerup" \in e.drops \cap rolled THEN <<item("powerup")>> ELSE <<>>)

RemoveAt(s, i) == SubSeq(s, 1, i - 1) \o SubSeq(s, i + 1, Len(s))

\* EnemyManager.update(), body of the loop for enemy i;
\* m = [enemies, droppedItems, totalEnemiesDefeated]
updateEnemyAt(m, i, lvl, jumpers, rolled) ==
    LET FellOffWorld(q) ==
            IF q.y > lvl.pixelHeight + KillPlaneMargin
            THEN [q EXCEPT !.shouldRemove = TRUE] ELSE q
        TurnAtEdge(q) ==
            IF ~checkGroundAhead(lvl.platforms, q.needsEdgeCheck.x, q.needsEdgeCheck.y)
               /\ q.turnAtEdges
            THEN turn(q) ELSE q
        EdgeCheck(q) ==
            IF q.needsEdgeCheck.set
            THEN [TurnAtEdge(q) EXCEPT !.needsEdgeCheck = NoEdgeCheck]
            ELSE q
        RemoveDead(q) ==
            IF q.shouldRemove
            THEN [enemies |-> RemoveAt(m.enemies, i),
                  droppedItems |-> m.droppedItems \o
                      (IF q.drops # {} THEN dropLoot(q, rolled[q.id]) ELSE <<>>),
                  totalEnemiesDefeated |-> m.totalEnemiesDefeated + 1]
            ELSE [m EXCEPT !.enemies[i] = q]
    IN RemoveDead(EdgeCheck(FellOffWorld(
           enemyUpdate(m.enemies[i], m.enemies[i].id \in jumpers))))

RECURSIVE updateEnemies(_, _, _, _, _)
\* EnemyManager.update(), the loop "for (i = length - 1; i >= 0; i--)"
updateEnemies(m, i, lvl, jumpers, rolled) ==
    IF i = 0 THEN m
    ELSE updateEnemies(updateEnemyAt(m, i, lvl, jumpers, rolled), i - 1, lvl, jumpers, rolled)

RECURSIVE enemyVsPlatforms(_, _, _)
\* EnemyManager.checkCollisions(), platforms.forEach for one enemy
enemyVsPlatforms(e, plats, k) ==
    IF k > Len(plats) THEN e
    ELSE LET c == checkRectCollision(e, plats[k])
         IN enemyVsPlatforms(IF c.hit THEN onCollisionWithPlatform(e, plats[k], c) ELSE e,
                             plats, k + 1)

\* variant: the stricter stomp test of the earlier handler
IsStompStrict(enemy, player) ==
    LET playerBottom == player.y + player.height
        playerCenterX == player.x + player.width \div 2
        enemyCenterX == enemy.x + enemy.width \div 2
    IN /\ player.speedY > 0
       /\ playerBottom <= enemy.y + 2000
       /\ Abs(playerCenterX - enemyCenterX) < (enemy.width * 8) \div 10
       /\ "stomp" \in enemy.vulnerabilities

\* the stomp test of EnemyManager.handleEnemyPlayerCollision
IsStomp(enemy, player) ==
    LET playerBottom == player.y + player.height
        enemyTop == enemy.y
        playerCenterX == player.x + player.width \div 2
        enemyCenterX == enemy.x + enemy.width \div 2
        isAboveEnemy == playerBottom <= enemyTop + StompVerticalTolerance
        isAligned == Abs(playerCenterX - enemyCenterX) < enemy.width + StompAlignTolerance
        isFalling == player.speedY >= StompMinSpeedY
        canBeStopped == "stomp" \in enemy.vulnerabilities
    IN isFalling /\ isAboveEnemy /\ isAligned /\ canBeStopped

\* variant: a stomp also lets the enemy hurt the player
handleEnemyPlayerCollisionBoth(w, enemy) ==
    IF IsStomp(enemy, w.player)
    THEN LET w1 == IF ~w.player.invulnerable THEN damagePlayer(w, enemy.damage) ELSE w
         IN [player |-> [w1.player EXCEPT !.speedY = StompBounce,
                                          !.invulnerable = TRUE,
                                          !.invulnerabilityTime = StompInvulnerability],
             engine |-> [w1.engine EXCEPT !.stats.score = w1.engine.stats.score + StompScore],
             enemy |-> takeDamage(enemy, 1, "stomp")]
    ELSE IF ~w.player.invulnerable
    THEN LET w1 == damagePlayer(w, enemy.damage)
             playerCenterX == w.player.x + w.player.width \div 2
             enemyCenterX == enemy.x + enemy.width \div 2
             knockbackDirection == IF playerCenterX < enemyCenterX THEN -1 ELSE 1
         IN [player |-> [w1.player EXCEPT !.speedX = knockbackDirection * KnockbackSpeedX,
                                          !.speedY = KnockbackSpeedY],
             engine |-> w1.engine,
             enemy |-> enemy]
    ELSE [player |-> w.player, engine |-> w.engine, enemy |-> enemy]

\* EnemyManager.handleEnemyPlayerCollision(enemy, player, collision);
\* w = [player, engine], result [player, engine, enemy]
handleEnemyPlayerCollision(w, enemy) ==
    IF IsStomp(enemy, w.player)
    THEN [player |-> [w.player EXCEPT !.speedY = StompBounce,
                                      !.invulnerable = TRUE,
                                      !.invulnerabilityTime = StompInvulnerability],
          engine |-> [w.engine EXCEPT !.stats.score = w.engine.stats.score + StompScore],
          enemy |-> takeDamage(enemy, 1, "stomp")]
    ELSE IF ~w.player.invulnerable
    THEN LET w1 == damagePlayer(w, enemy.damage)
             playerCenterX == w.player.x + w.player.width \div 2
             enemyCenterX == enemy.x + enemy.width \div 2
             knockbackDirection == IF playerCenterX < enemyCenterX THEN -1 ELSE 1
         IN [player |-> [w1.player EXCEPT !.speedX = knockbackDirection * KnockbackSpeedX,
                                          !.speedY = KnockbackSpeedY],
             engine |-> w1.engine,
             enemy |-> enemy]
    ELSE [player |-> w.player, engine |-> w.engine, enemy |-> enemy]

\* one entry of the frame's event log: what was done, for which enemy
Event(what, id) == [what |-> what, id |-> id]

\* variant: the player is tested before the enemy is resolved against the
\* platforms
collideEnemyPlayerFirst(w, enemy, plats) ==
    LET Platforms(q) ==
            IF q.collideWithPlatforms
            THEN enemyVsPlatforms(
                     IF q.affectedByGravity
                     THEN [q EXCEPT !.isGrounded = FALSE] ELSE q,
                     plats, 1)
            ELSE q
        PlatformEvents ==
            IF enemy.collideWithPlatforms
            THEN <<Event("platforms", enemy.id)>> ELSE <<>>
        Invoked(r, q) ==
            [player |-> r.player, engine |-> r.engine, enemy |-> Platforms(r.enemy),
             arg |-> q, called |-> TRUE,
             events |-> <<Event("player", q.id)>> \o PlatformEvents]
        AgainstPlayer(q) ==
            IF checkRectCollision(q, w.player).hit
            THEN Invoked(handleEnemyPlayerCollision(w, q), q)
            ELSE [player |-> w.player, engine |-> w.engine, enemy |-> Platforms(q),
                  arg |-> q, called |-> FALSE, events |-> PlatformEvents]
    IN IF enemy.isDead
       THEN [player |-> w.player, engine |-> w.engine, enemy |-> enemy,
             arg |-> enemy, called |-> FALSE, events |-> <<>>]
       ELSE AgainstPlayer(enemy)

\* variant: dead enemies are not skipped
collideEnemyDeadToo(w, enemy, plats) ==
    LET PlatformEvents ==
            IF enemy.collideWithPlatforms
            THEN <<Event("platforms", enemy.id)>> ELSE <<>>
        Invoked(r, q) ==
            [player |-> r.player, engine |-> r.engine, enemy |-> r.enemy,
             arg |-> q, called |-> TRUE,
             events |-> PlatformEvents \o <<Event("player", q.id)>>]
        AgainstPlayer(q) ==
            IF checkRectCollision(q, w.player).hit
            THEN Invoked(handleEnemyPlayerCollision(w, q), q)
            ELSE [player |-> w.player, engine |-> w.engine, enemy |-> q,
                  arg |-> q, called |-> FALSE, events |-> PlatformEvents]
    IN AgainstPlayer(IF enemy.collideWithPlatforms
                     THEN enemyVsPlatforms(
                              IF enemy.affectedByGravity
                              THEN [enemy EXCEPT !.isGrounded = FALSE] ELSE enemy,
                              plats, 1)
                     ELSE enemy)

\* EnemyManager.checkCollisions(), body of enemies.forEach for one enemy
\* result [player, engine, enemy, arg, called, events]: arg is the enemy as
\* passed to handleEnemyPlayerCollision, called whether that handler was
\* invoked, events what the callback did, in the order it did it
collideEnemy(w, enemy, plats) ==
    LET PlatformEvents ==
            IF enemy.collideWithPlatforms
            THEN <<Event("platforms", enemy.id)>> ELSE <<>>
        Invoked(r, q) ==
            [player |-> r.player, engine |-> r.engine, enemy |-> r.enemy,
             arg |-> q, called |-> TRUE,
             events |-> PlatformEvents \o <<Event("player", q.id)>>]
        AgainstPlayer(q) ==
            IF checkRectCollision(q, w.player).hit
            THEN Invoked(handleEnemyPlayerCollision(w, q), q)
            ELSE [player |-> w.player, engine |-> w.engine, enemy |-> q,
                  arg |-> q, called |-> FALSE, events |-> PlatformEvents]
    IN IF enemy.isDead
       THEN [player |-> w.player, engine |-> w.engine, enemy |-> enemy,
             arg |-> enemy, called |-> FALSE, events |-> <<>>]
       ELSE AgainstPlayer(IF enemy.collideWithPlatforms
                          THEN enemyVsPlatforms(
                                   IF enemy.affectedByGravity
                                   THEN [enemy EXCEPT !.isGrounded = FALSE] ELSE enemy,
                                   plats, 1)
                          ELSE enemy)

\* variant: the first enemy is looked at again after its handler has run
forEachRepeat(i, calls) == IF i = 1 /\ Len(calls) = 1 THEN 1 ELSE i + 1

\* EnemyManager.checkCollisions(): this.enemies.forEach moves on to the next
\* enemy after each callback, whatever the callback did
forEachNext(i, calls) == i + 1

\* EnemyManager.checkProjectileCollisions(): the loop body for projectile i;
\* result [w, projs, hit]
projectileTurn(w, projs, i) ==
    IF checkRectCollision(projs[i], w.player).hit
    THEN [w |-> damagePlayer(w, IF projs[i].damage # 0 THEN projs[i].damage
                                ELSE DefaultProjectileDamage),
          projs |-> RemoveAt(projs, i), hit |-> TRUE]
    ELSE [w |-> w, projs |-> projs, hit |-> FALSE]

RECURSIVE updateProjectiles(_, _)
\* EnemyManager.updateProjectiles()
updateProjectiles(projs, i) ==
    IF i = 0 THEN projs
    ELSE LET pr == [projs[i] EXCEPT !.x = projs[i].x + projs[i].speedX,
                                    !.y = projs[i].y + projs[i].speedY]
         IN IF pr.x < -100 * U \/ pr.x > 2000 * U \/ pr.y < -100 * U \/ pr.y > 1000 * U
            THEN updateProjectiles(RemoveAt(projs, i), i - 1)
            ELSE updateProjectiles([projs EXCEPT ![i] = pr], i - 1)

\* EnemyManager.addProjectile(x, y, speedX, speedY, damage = 10)
addProjectile(projs, px, py, sx, sy, damage) ==
    Append(projs, [x |-> px, y |-> py, width |-> 8 * U, height |-> 8 * U,
                   speedX |-> sx, speedY |-> sy, damage |-> damage])

RECURSIVE playerVsPlatforms(_, _, _, _)
\* main.js update(): levelPlatforms.forEach, player against every platform
playerVsPlatforms(types, p, plats, k) ==
    IF k > Len(plats) THEN p
    ELSE LET c == checkRectCollision(p, plats[k])
         IN playerVsPlatforms(types,
                IF c.hit THEN handlePlatformCollision(types, p, plats[k], c) ELSE p,
                plats, k + 1)

\* ------------------------------------------------------------------ levels
Solid(px, py, w, h) == [x |-> px * U, y |-> py * U, width |-> w * U, height |-> h * U,
                        type |-> "solid"]
LevelWidth == 384 * U
LevelHeight == 320 * U
Ground == Solid(0, 288, 384, 32)
Ledge == Solid(0, 150, 100, 20)
HighPlatform == Solid(150, 152, 100, 20)
\* moving platforms: two that move right, one of them 1 px from the right end
\* of the level, and one that moves down
RightMover == [Solid(100, 150, 100, 20) EXCEPT !.type = "platform_r_slow"]
EdgeMover == [Solid(283, 250, 100, 20) EXCEPT !.type = "platform_r_slow"]
DownMover == [Solid(100, 150, 100, 20) EXCEPT !.type = "platform_d_slow"]

WalkerCfg == [health |-> 1, damage |-> 10, vulnerabilities |-> {"projectile", "stomp"},
              startDirection |-> 1, patrolDistance |-> 0]
StrongCfg == [WalkerCfg EXCEPT !.health = 3]
SpikyCfg == [WalkerCfg EXCEPT !.vulnerabilities = {"projectile"}]
NoShooter == [present |-> FALSE, x |-> 0, y |-> 0, speedX |-> 0, speedY |-> 0]

\* The levels and starting situations explored: level data (platforms, enemy
\* spawns, player start), the health the player enters with, the keys the
\* user operates and whether something in the level fires enemy projectiles.
Scenarios ==
    << \* 1: on the right edge of a ledge, nothing below but the level floor
       [platforms |-> <<Ledge>>, enemies |-> <<>>, spawnX |-> 9820, spawnY |-> 3800,
        health |-> 100, frames |-> MaxFrames, keyEvents |-> MaxKeyEvents, inputs |-> {"right", "up"}, shooter |-> NoShooter],
       \* 2: in the air, 19 px above the level floor
       [platforms |-> <<>>, enemies |-> <<>>, spawnX |-> 10000, spawnY |-> 18900,
        health |-> 100, frames |-> MaxFrames, keyEvents |-> MaxKeyEvents, inputs |-> {"up"}, shooter |-> NoShooter],
       \* 3: dropping onto a 1-health walker, centres aligned
       [platforms |-> <<Ground>>,
        enemies |-> <<[type |-> "walker", x |-> 20000, y |-> 25600, cfg |-> WalkerCfg]>>,
        spawnX |-> 19050, spawnY |-> 14450,
        health |-> 100, frames |-> MaxFrames, keyEvents |-> MaxKeyEvents, inputs |-> {"up"}, shooter |-> NoShooter],
       \* 4: dropping onto a 3-health walker that stands just under the level top;
       \*    a second walker starts below the kill plane
       [platforms |-> <<HighPlatform>>,
        enemies |-> <<[type |-> "walker", x |-> 18400, y |-> 12000, cfg |-> StrongCfg],
                      [type |-> "walker", x |-> 30000, y |-> 41990, cfg |-> WalkerCfg]>>,
        spawnX |-> 17450, spawnY |-> 850,
        health |-> 100, frames |-> MaxFrames, keyEvents |-> MaxKeyEvents, inputs |-> {}, shooter |-> NoShooter],
       \* 5: standing on the ground between two walkers, 10 health left
       [platforms |-> <<Ground>>,
        enemies |-> <<[type |-> "walker", x |-> 13000, y |-> 25600, cfg |-> WalkerCfg],
                      [type |-> "walker", x |-> 14000, y |-> 25600, cfg |-> WalkerCfg]>>,
        spawnX |-> 10000, spawnY |-> 17600,
        health |-> 10, frames |-> MaxFrames, keyEvents |-> MaxKeyEvents, inputs |-> {}, shooter |-> NoShooter],
       \* 6: dropping onto a walker that is not stomp-vulnerable
       [platforms |-> <<Ground>>,
        enemies |-> <<[type |-> "walker", x |-> 20000, y |-> 25600, cfg |-> SpikyCfg]>>,
        spawnX |-> 19050, spawnY |-> 14450,
        health |-> 100, frames |-> MaxFrames, keyEvents |-> MaxKeyEvents, inputs |-> {}, shooter |-> NoShooter],
       \* 7: dropping onto the rim of a walker, centres 43 px apart
       [platforms |-> <<Ground>>,
        enemies |-> <<[type |-> "walker", x |-> 20000, y |-> 25600, cfg |-> WalkerCfg]>>,
        spawnX |-> 14750, spawnY |-> 14450,
        health |-> 100, frames |-> MaxFrames, keyEvents |-> MaxKeyEvents, inputs |-> {}, shooter |-> NoShooter],
       \* 8: standing on the ground in the line of fire of enemy projectiles
       [platforms |-> <<Ground>>, enemies |-> <<>>, spawnX |-> 10000, spawnY |-> 17600,
        health |-> 100, frames |-> MaxFrames, keyEvents |-> MaxKeyEvents, inputs |-> {},
        shooter |-> [present |-> TRUE, x |-> 15000, y |-> 20000,
                     speedX |-> -300, speedY |-> 0]],
       \* 9: sunk 25 px into the top of a 3-health walker
       [platforms |-> <<Ground>>,
        enemies |-> <<[type |-> "walker", x |-> 20000, y |-> 25600, cfg |-> StrongCfg]>>,
        spawnX |-> 19050, spawnY |-> 16900,
        health |-> 100, frames |-> MaxFrames, keyEvents |-> MaxKeyEvents, inputs |-> {}, shooter |-> NoShooter],
       \* 10: 10 px above a walker that is not stomp-vulnerable, 10 health left
       [platforms |-> <<Ground>>,
        enemies |-> <<[type |-> "walker", x |-> 20000, y |-> 25600, cfg |-> SpikyCfg]>>,
        spawnX |-> 19050, spawnY |-> 13400,
        health |-> 10, frames |-> MaxFrames, keyEvents |-> MaxKeyEvents, inputs |-> {"up"}, shooter |-> NoShooter],
       \* 11: resting on a 1-health walker, a second walker patrols out of reach;
       \*     followed until the death animation of the first is over
       [platforms |-> <<Ground>>,
        enemies |-> <<[type |-> "walker", x |-> 20000, y |-> 25600, cfg |-> WalkerCfg],
                      [type |-> "walker", x |-> 2000, y |-> 25600, cfg |-> WalkerCfg]>>,
        spawnX |-> 19050, spawnY |-> 14450,
        health |-> 100, frames |-> MaxLifeFrames, keyEvents |-> MaxKeyEvents, inputs |-> {}, shooter |-> NoShooter],
       \* 12: 10 px above a walker that is not stomp-vulnerable, 10 health left;
       \*     followed through the death animation and the respawn
       [platforms |-> <<Ground>>,
        enemies |-> <<[type |-> "walker", x |-> 20000, y |-> 25600, cfg |-> SpikyCfg]>>,
        spawnX |-> 19050, spawnY |-> 13400,
        health |-> 10, frames |-> MaxDeathFrames, keyEvents |-> MaxDeathKeyEvents,
        inputs |-> {"up"},
        shooter |-> NoShooter],
       \* 13: over a pit: in the air, 19 px above the bottom edge of the level,
       \*     no platform below
       [platforms |-> <<>>, enemies |-> <<>>, spawnX |-> 10000, spawnY |-> 18900,
        health |-> 100, frames |-> MaxLifeFrames, keyEvents |-> MaxKeyEvents,
        inputs |-> {}, shooter |-> NoShooter],
       \* 14: standing on a platform that moves right, while another platform
       \*     of the same type reaches the right end of the level
       [platforms |-> <<EdgeMover, RightMover>>, enemies |-> <<>>,
        spawnX |-> 12000, spawnY |-> 3800,
        health |-> 100, frames |-> MaxFrames, keyEvents |-> MaxKeyEvents,
        inputs |-> {}, shooter |-> NoShooter],
       \* 15: standing on a platform of a type that moves down
       [platforms |-> <<DownMover>>, enemies |-> <<>>,
        spawnX |-> 12000, spawnY |-> 3800,
        health |-> 100, frames |-> MaxFrames, keyEvents |-> MaxKeyEvents,
        inputs |-> {}, shooter |-> NoShooter] >>

\* this.enemyTypes[type]: the registry of the EnemyManager constructor
enemyTypesLookup(type) ==
    IF type = "walker" THEN "EnemyWalker"
    ELSE IF type = "flyer" THEN "EnemyFlyer"
    ELSE IF type \in InheritedKeys THEN "Object"
    ELSE "undefined"

\* new Object(x, y, config): a Number object holding x, none of an enemy's fields
NewObject(id, ex) == [id |-> id, value |-> ex]

\* variant: the cap is tested with > instead of >=
spawnEnemyOffByOne(m, type, ex, ey, cfg) ==
    IF Len(m.enemies) > maxEnemies THEN m
    ELSE IF enemyTypesLookup(type) = "undefined" THEN m
    ELSE [m EXCEPT !.enemies = Append(m.enemies,
                       IF enemyTypesLookup(type) = "Object"
                       THEN NewObject(m.totalEnemiesSpawned + 1, ex)
                       ELSE NewWalker(m.totalEnemiesSpawned + 1, ex, ey, cfg)),
                   !.totalEnemiesSpawned = m.totalEnemiesSpawned + 1]

\* EnemyManager.spawnEnemy(type, x, y, config): the manager afterwards; the
\* object gets the next id (the levels here declare no flyers)
spawnEnemy(m, type, ex, ey, cfg) ==
    IF Len(m.enemies) >= maxEnemies THEN m
    ELSE IF enemyTypesLookup(type) = "undefined" THEN m
    ELSE [m EXCEPT !.enemies = Append(m.enemies,
                       IF enemyTypesLookup(type) = "Object"
                       THEN NewObject(m.totalEnemiesSpawned + 1, ex)
                       ELSE NewWalker(m.totalEnemiesSpawned + 1, ex, ey, cfg)),
                   !.totalEnemiesSpawned = m.totalEnemiesSpawned + 1]

\* EnemyManager.spawnEnemy: whether it returns null
spawnEnemyReturnsNull(m, type) ==
    Len(m.enemies) >= maxEnemies \/ enemyTypesLookup(type) = "undefined"

RECURSIVE spawnAll(_, _, _)
\* EnemyManager.init(levelData): levelData.enemies.forEach(spawnEnemy)
spawnAll(m, spawns, k) ==
    IF k > Len(spawns) THEN m
    ELSE spawnAll(spawnEnemy(m, spawns[k].type, spawns[k].x, spawns[k].y, spawns[k].cfg),
                  spawns, k + 1)

NewManager == [enemies |-> <<>>, enemyProjectiles |-> <<>>, droppedItems |-> <<>>,
               totalEnemiesSpawned |-> 0, totalEnemiesDefeated |-> 0]

\* ------------------------------------------------------------------- state
VARIABLES
    player,         \* window.player
    engine,         \* window.gameEngine: playerStats, deathAnimation, currentState
    mgr,            \* window.enemyManager
    level,          \* gameEngine.currentLevel (its platforms move)
    platformTypes,  \* collisionDetection.platformTypes
    pc,             \* position inside the frame; "idle" between frames
    idx,            \* the enemy / projectile the running loop is at
    frame,          \* frames completed
    budget,         \* [keys, shots, jumps] inputs used so far
    scen,           \* the scenario chosen
    obs,            \* what the last step was and the state it started from
    hist            \* history of the current airborne phase / frame

vars == <<player, engine, mgr, level, platformTypes, pc, idx, frame, budget, scen, obs, hist>>

NoEnemy == NewWalker(0, 0, 0, WalkerCfg)

\* the enemy objects in this.enemies (an object is named by its id)
EnemyIds(m) == {m.enemies[i].id : i \in 1..Len(m.enemies)}

Observe(op) == [op |-> op, player |-> player, engine |-> engine, hist |-> hist,
                enemy |-> NoEnemy, enemyAfter |-> NoEnemy, called |-> FALSE]

\* position and velocity of an entity
Kinematics(e) == [x |-> e.x, y |-> e.y, speedX |-> e.speedX, speedY |-> e.speedY]

\* main.js update(), one frame's platform phase seen from a player that came
\* down on a single platform of a linearly moving type: the type's record as
\* the resolution read it, how far the resolution carried the player (x) and
\* left it from the platform's top (y), and how far the platform moved
NoRide == [on |-> FALSE, dirX |-> 0, dirY |-> 0, speed |-> 0,
           playerDx |-> 0, playerDy |-> 0, platDx |-> 0, platDy |-> 0]

RideOf(p0, p1, before, after, types) ==
    LET touched == {k \in 1..Len(before) : checkRectCollision(p0, before[k]).hit}
        Stands(k) ==
            /\ checkRectCollision(p0, before[k]).fromTop
            /\ checkRectCollision(p0, before[k]).overlapX
                  >= checkRectCollision(p0, before[k]).overlapY
            /\ LookupType(types, before[k].type).hasDir
        Ride(k) ==
            [on |-> TRUE,
             dirX |-> LookupType(types, before[k].type).dirX,
             dirY |-> LookupType(types, before[k].type).dirY,
             speed |-> LookupType(types, before[k].type).speed,
             playerDx |-> p1.x - p0.x,
             playerDy |-> p1.y - (before[k].y - p0.height),
             platDx |-> after[k].x - before[k].x,
             platDy |-> after[k].y - before[k].y]
    IN IF Cardinality(touched) = 1 /\ \A k \in touched : Stands(k)
       THEN Ride(CHOOSE k \in touched : TRUE)
       ELSE NoRide

\* the player's feet are at or below the bottom edge of the level
ReachedBottom(p, lvl) == p.y + p.height >= lvl.pixelHeight

\* the player rests on top of a platform or on the level floor
Supported(p, lvl) ==
    \/ p.y = lvl.pixelHeight - p.height
    \/ \E k \in 1..Len(lvl.platforms) :
          /\ p.y + p.height = lvl.platforms[k].y
          /\ p.x < lvl.platforms[k].x + lvl.platforms[k].width
          /\ p.x + p.width > lvl.platforms[k].x

Init ==
    /\ scen \in 1..Len(Scenarios)
    /\ player = NewPlayer(Scenarios[scen].spawnX, Scenarios[scen].spawnY)
    /\ engine = NewEngine(Scenarios[scen].health)
    /\ mgr = spawnAll(NewManager, Scenarios[scen].enemies, 1)
    /\ level = [pixelWidth |-> LevelWidth, pixelHeight |-> LevelHeight,
                platforms |-> Scenarios[scen].platforms,
                spawnX |-> Scenarios[scen].spawnX, spawnY |-> Scenarios[scen].spawnY]
    /\ platformTypes = InitPlatformTypes
    /\ pc = "idle"
    /\ idx = 0
    /\ frame = 0
    /\ budget = [keys |-> 0, shots |-> 0, jumps |-> 0]
    /\ hist = [airFrames |-> 0, wasSupported |-> FALSE, jumpedSinceSupport |-> FALSE,
               jumpsSinceGrounded |-> 0, releasedSinceJump |-> TRUE, calls |-> <<>>,
               deadFor |-> [id \in EnemyIds(mgr) |-> 0], removals |-> <<>>,
               phases |-> <<>>, afterPlatforms |-> Kinematics(player),
               events |-> <<>>, bottomFrames |-> 0, ride |-> NoRide]
    /\ obs = [op |-> "init", player |-> player, engine |-> engine, hist |-> hist,
              enemy |-> NoEnemy, enemyAfter |-> NoEnemy, called |-> FALSE]

\* ----------------------------------------------------------------- actions
World == [player |-> player, engine |-> engine]

\* main.js keydown listener -> Player.handleKeyDown
KeyDown(key) ==
    /\ pc = "idle"
    /\ key \in Scenarios[scen].inputs
    /\ budget.keys < Scenarios[scen].keyEvents
    /\ ~player.keys[key]
    /\ player' = IF engine.currentState = "playing" THEN handleKeyDown(player, key)
                 ELSE player
    /\ budget' = [budget EXCEPT !.keys = budget.keys + 1]
    /\ obs' = Observe("keydown")
    /\ UNCHANGED <<engine, mgr, level, platformTypes, pc, idx, frame, scen, hist>>

\* main.js keyup listener -> Player.handleKeyUp
KeyUp(key) ==
    /\ pc = "idle"
    /\ key \in Scenarios[scen].inputs
    /\ budget.keys < Scenarios[scen].keyEvents
    /\ player.keys[key]
    /\ player' = IF engine.currentState = "playing" THEN handleKeyUp(player, key)
                 ELSE player
    /\ hist' = IF engine.currentState = "playing" /\ key = "up"
               THEN [hist EXCEPT !.releasedSinceJump = TRUE] ELSE hist
    /\ budget' = [budget EXCEPT !.keys = budget.keys + 1]
    /\ obs' = Observe("keyup")
    /\ UNCHANGED <<engine, mgr, level, platformTypes, pc, idx, frame, scen>>

\* a caller of EnemyManager.addProjectile (the level's shooter)
AddProjectile ==
    /\ pc = "idle"
    /\ Scenarios[scen].shooter.present
    /\ budget.shots < MaxEnemyShots
    /\ \E sh \in {Scenarios[scen].shooter} :
          mgr' = [mgr EXCEPT !.enemyProjectiles =
                     addProjectile(mgr.enemyProjectiles, sh.x, sh.y, sh.speedX, sh.speedY,
                                   DefaultProjectileDamage)]
    /\ budget' = [budget EXCEPT !.shots = budget.shots + 1]
    /\ obs' = Observe("addProjectile")
    /\ UNCHANGED <<player, engine, level, platformTypes, pc, idx, frame, scen, hist>>

\* the walkers for which Math.random() < 0.01 can make a difference this frame
JumpCandidates ==
    {mgr.enemies[i].id : i \in {j \in 1..Len(mgr.enemies) :
         /\ ~mgr.enemies[j].isDead
         /\ mgr.enemies[j].isGrounded
         /\ mgr.enemies[j].jumpCooldown <= 1}}

DropTypes == {"coin", "health"}

\* EnemyManager.update(): enemy.update() is called on every enemy of the
\* list, from the last index down to the first
UpdateEvents(enemies) ==
    [k \in 1..Len(enemies) |-> Event("update", enemies[Len(enemies) + 1 - k].id)]

\* history of the enemy loop of EnemyManager.update(): for every enemy the
\* number of passes of the loop it has been through since it died
DeadForAfter(deadFor, enemies) ==
    [id \in DOMAIN deadFor |->
        IF \E i \in 1..Len(enemies) : enemies[i].id = id /\ enemies[i].isDead
        THEN deadFor[id] + 1 ELSE deadFor[id]]

RECURSIVE RemovalsOf(_, _, _, _, _)
\* history of the enemy loop: one record for every enemy the pass spliced out
\* of the list (the loop runs from the last enemy to the first), with what
\* the enemy was when the pass started and its y when shouldRemove was read
RemovalsOf(enemies, m1, deadFor, jumpers, i) ==
    IF i = 0 THEN <<>>
    ELSE IF enemies[i].id \in EnemyIds(m1) THEN RemovalsOf(enemies, m1, deadFor, jumpers, i - 1)
    ELSE <<[id |-> enemies[i].id,
            wasDead |-> enemies[i].isDead,
            deadUpdates |-> IF enemies[i].isDead THEN deadFor[enemies[i].id] + 1 ELSE 0,
            yBefore |-> enemies[i].y,
            y |-> enemyUpdate(enemies[i], enemies[i].id \in jumpers).y]>>
         \o RemovalsOf(enemies, m1, deadFor, jumpers, i - 1)

\* main.js update() -> gameEngine.update() -> updatePlaying(), up to and
\* including the enemy loop of EnemyManager.update()
EngineUpdate ==
    /\ pc = "idle"
    /\ frame < Scenarios[scen].frames
    /\ obs' = Observe("gameEngine.update")
    /\ IF engine.currentState # "playing"
       THEN /\ pc' = "idle"
            /\ frame' = frame + 1
            /\ hist' = [hist EXCEPT !.calls = <<>>, !.phases = <<>>,
                                    !.events = <<>>]
            /\ UNCHANGED <<player, engine, mgr, idx, budget>>
       ELSE IF engine.deathAnimation.active
       THEN /\ \E w \in {updateDeathAnimation(World, level)} :
                  player' = w.player /\ engine' = w.engine
            /\ pc' = "player"
            /\ hist' = [hist EXCEPT !.calls = <<>>,
                                    !.phases = <<"updateDeathAnimation">>,
                                    !.events = <<>>]
            /\ UNCHANGED <<mgr, idx, frame, budget>>
       ELSE \E jumpers \in SUBSET JumpCandidates :
              /\ budget.jumps + Cardinality(jumpers) <= MaxWalkerJumps
              /\ \E m0 \in {[enemies |-> mgr.enemies, droppedItems |-> mgr.droppedItems,
                              totalEnemiesDefeated |-> mgr.totalEnemiesDefeated]} :
                 \E dry \in {updateEnemies(m0, Len(mgr.enemies), level, jumpers,
                                            [id \in EnemyIds(mgr) |-> {}])} :
                 \E rolls \in [EnemyIds(mgr) \ EnemyIds(dry) -> SUBSET DropTypes] :
                 \E rolled \in {[id \in EnemyIds(mgr) |->
                                    IF id \in DOMAIN rolls THEN rolls[id] ELSE {}]} :
                 \E m1 \in {updateEnemies(m0, Len(mgr.enemies), level, jumpers, rolled)} :
                    /\ mgr' = [mgr EXCEPT !.enemies = m1.enemies,
                                          !.droppedItems = m1.droppedItems,
                                          !.totalEnemiesDefeated = m1.totalEnemiesDefeated]
                    /\ hist' = [hist EXCEPT
                          !.calls = <<>>,
                          !.phases = <<"EnemyManager.update">>,
                          !.events = UpdateEvents(mgr.enemies),
                          !.deadFor = DeadForAfter(hist.deadFor, mgr.enemies),
                          !.removals = hist.removals \o
                              RemovalsOf(mgr.enemies, m1, hist.deadFor, jumpers,
                                         Len(mgr.enemies))]
              /\ budget' = [budget EXCEPT !.jumps = budget.jumps + Cardinality(jumpers)]
              /\ pc' = "collide"
              /\ idx' = 1
              /\ UNCHANGED <<player, engine, frame>>
    /\ UNCHANGED <<level, platformTypes, scen>>

\* EnemyManager.checkCollisions(): one turn of this.enemies.forEach
CollideEnemy ==
    /\ pc = "collide"
    /\ idx <= Len(mgr.enemies)
    /\ \E r \in {collideEnemy(World, mgr.enemies[idx], level.platforms)} :
       \E calls \in {IF r.called THEN Append(hist.calls, mgr.enemies[idx].id)
                      ELSE hist.calls} :
          /\ player' = r.player
          /\ engine' = r.engine
          /\ mgr' = [mgr EXCEPT !.enemies[idx] = r.enemy]
          /\ obs' = [Observe("checkCollisions") EXCEPT !.enemy = r.arg,
                                                       !.enemyAfter = r.enemy,
                                                       !.called = r.called]
          /\ hist' = [hist EXCEPT !.calls = calls,
                                  !.events = hist.events \o r.events]
          /\ idx' = forEachNext(idx, calls)
    /\ UNCHANGED <<level, platformTypes, pc, frame, budget, scen>>

\* EnemyManager.checkProjectileCollisions(): entry test
CheckProjectileCollisions ==
    /\ pc = "collide"
    /\ idx > Len(mgr.enemies)
    /\ IF player.invulnerable
       THEN pc' = "engineTail" /\ idx' = 0
       ELSE pc' = "projectiles" /\ idx' = Len(mgr.enemyProjectiles)
    /\ obs' = Observe("checkProjectileCollisions")
    /\ hist' = [hist EXCEPT !.phases = Append(hist.phases, "enemy-vs-player")]
    /\ UNCHANGED <<player, engine, mgr, level, platformTypes, frame, budget, scen>>

\* EnemyManager.checkProjectileCollisions(): one turn of the loop
ProjectileStep ==
    /\ pc = "projectiles"
    /\ idx >= 1
    /\ \E one \in {projectileTurn(World, mgr.enemyProjectiles, idx)} :
          /\ player' = one.w.player
          /\ engine' = one.w.engine
          /\ mgr' = [mgr EXCEPT !.enemyProjectiles = one.projs]
          /\ obs' = [Observe("projectileHit") EXCEPT !.called = one.hit]
    /\ idx' = idx - 1
    /\ UNCHANGED <<level, platformTypes, pc, frame, budget, scen, hist>>

\* end of EnemyManager.update() (updateProjectiles) and the rest of
\* GameEngine.updatePlaying() (fall-off check)
EngineTail ==
    /\ \/ pc = "engineTail"
       \/ pc = "projectiles" /\ idx = 0
    /\ mgr' = [mgr EXCEPT !.enemyProjectiles =
                  updateProjectiles(mgr.enemyProjectiles, Len(mgr.enemyProjectiles))]
    /\ \E w \in {IF player.y > level.pixelHeight + KillPlaneMargin
                   THEN playerDeath(World) ELSE World} :
          player' = w.player /\ engine' = w.engine
    /\ pc' = "player"
    /\ idx' = 0
    /\ obs' = Observe("updatePlaying")
    /\ UNCHANGED <<level, platformTypes, frame, budget, scen, hist>>

\* main.js update(): player.update()
PlayerStep ==
    /\ pc = "player"
    /\ \E runs \in {engine.currentState = "playing"} :
       \E p1 \in {IF runs THEN PlayerUpdate(player, level) ELSE player} :
       \E jumped \in {p1.jumps > player.jumps} :
          /\ player' = p1
          /\ obs' = [Observe("Player.update") EXCEPT !.called = runs]
          /\ hist' = [hist EXCEPT
                !.phases = IF runs THEN Append(hist.phases, "Player.update")
                           ELSE hist.phases,
                !.jumpedSinceSupport = hist.jumpedSinceSupport \/ jumped,
                !.jumpsSinceGrounded = IF p1.isGrounded THEN 0
                                       ELSE IF jumped /\ player.isGrounded THEN 1
                                       ELSE IF jumped THEN hist.jumpsSinceGrounded + 1
                                       ELSE hist.jumpsSinceGrounded,
                !.releasedSinceJump = IF jumped THEN FALSE ELSE hist.releasedSinceJump]
    /\ pc' = "platforms"
    /\ UNCHANGED <<engine, mgr, level, platformTypes, idx, frame, budget, scen>>

RECURSIVE movePlatforms(_, _, _, _)
\* main.js update(): "Update moving platforms"; s = [plats, types]
movePlatforms(plats, types, lvl, k) ==
    IF k > Len(plats) THEN [plats |-> plats, types |-> types]
    ELSE IF plats[k].type \in PlatformTypeKeys /\ types[plats[k].type].hasDir
    THEN LET t == types[plats[k].type]
             nx == plats[k].x + t.dirX * t.speed
             flip == nx < 0 \/ nx + plats[k].width > lvl.pixelWidth
         IN movePlatforms([plats EXCEPT ![k].x = nx],
                          IF flip THEN [types EXCEPT ![plats[k].type].dirX = -t.dirX]
                          ELSE types, lvl, k + 1)
    ELSE movePlatforms(plats, types, lvl, k + 1)

\* main.js update(): player against the platforms, then the moving platforms
PlatformPhase ==
    /\ pc = "platforms"
    /\ \E runs \in {engine.currentState = "playing"} :
       \E p1 \in {IF runs
                   THEN playerVsPlatforms(platformTypes, player, level.platforms, 1)
                   ELSE player} :
       \E mv \in {IF runs THEN movePlatforms(level.platforms, platformTypes, level, 1)
                   ELSE [plats |-> level.platforms, types |-> platformTypes]} :
       \E sup \in {Supported(p1, level)} :
          /\ player' = p1
          /\ level' = [level EXCEPT !.platforms = mv.plats]
          /\ platformTypes' = mv.types
          /\ hist' = [hist EXCEPT
                !.phases = IF runs THEN Append(hist.phases, "player-vs-platform")
                           ELSE hist.phases,
                !.afterPlatforms = Kinematics(p1),
                !.ride = IF runs
                         THEN RideOf(player, p1, level.platforms, mv.plats, platformTypes)
                         ELSE NoRide,
                !.bottomFrames = IF hist.bottomFrames > 0 \/ ReachedBottom(p1, level)
                                 THEN hist.bottomFrames + 1 ELSE 0,
                !.airFrames = IF sup THEN 0 ELSE hist.airFrames + 1,
                !.wasSupported = hist.wasSupported \/ sup,
                !.jumpedSinceSupport = IF sup THEN FALSE ELSE hist.jumpedSinceSupport,
                !.jumpsSinceGrounded = IF p1.isGrounded THEN 0
                                       ELSE hist.jumpsSinceGrounded]
    /\ pc' = "idle"
    /\ frame' = frame + 1
    /\ obs' = Observe("platforms")
    /\ UNCHANGED <<engine, mgr, idx, budget, scen>>

Next ==
    \/ \E key \in KeyNames : KeyDown(key)
    \/ \E key \in KeyNames : KeyUp(key)
    \/ AddProjectile
    \/ EngineUpdate
    \/ CollideEnemy
    \/ CheckProjectileCollisions
    \/ ProjectileStep
    \/ EngineTail
    \/ PlayerStep
    \/ PlatformPhase

Spec == Init /\ [][Next]_vars

\* ------------------------------------------- platform resolution on its own
\* checkRectCollision + handlePlatformCollision applied to one entity and one
\* platform, the way the forEach body of main.js update() applies them, for
\* entities and platforms drawn from the sets below, followed by the
\* moving-platform loop of update().  The platform is the 200 x 20 one at
\* (50, 540); the entity has the player's size.  The types "moving_platform"
\* (used by level data) and "constructor" are not keys of the table;
\* "undefined" is the key a platform without a type is looked up under.  Fall speeds
\* above terminalVelocity do not come out of Player.update; they are here
\* because the resolution is stated for every incoming speed.
ResolveTypes == {"solid", "oneway", "platform_r_slow", "bouncy_platform",
                 "super_bouncy_platform", "moving_platform", "constructor", "undefined"}
ResolveXs == {0, 2000, 10000, 24600}
ResolveYs == {40000, 43200, 43600, 50000, 54000, 55600}
ResolveSpeedXs == {0, 300}
ResolveSpeedYs == {-500, 0, 70, 500, 1000, 1500, 2000, 3000}

ResolvePlatform(type) ==
    [x |-> 50 * U, y |-> 540 * U, width |-> 200 * U, height |-> 20 * U, type |-> type]

ResolveInit ==
    /\ scen = 0
    /\ \E px \in ResolveXs, py \in ResolveYs, sx \in ResolveSpeedXs, sy \in ResolveSpeedYs :
          player = [NewPlayer(px, py) EXCEPT !.speedX = sx, !.speedY = sy]
    /\ engine = NewEngine(100)
    /\ mgr = NewManager
    /\ \E type \in ResolveTypes :
          level = [pixelWidth |-> LevelWidth, pixelHeight |-> 640 * U,
                   platforms |-> <<ResolvePlatform(type)>>,
                   spawnX |-> 0, spawnY |-> 0]
    /\ platformTypes = InitPlatformTypes
    /\ pc = "resolve"
    /\ idx = 1
    /\ frame = 0
    /\ budget = [keys |-> 0, shots |-> 0, jumps |-> 0]
    /\ hist = [airFrames |-> 0, wasSupported |-> FALSE, jumpedSinceSupport |-> FALSE,
               jumpsSinceGrounded |-> 0, releasedSinceJump |-> TRUE, calls |-> <<>>]
    /\ obs = [op |-> "init", player |-> player, engine |-> engine, hist |-> hist,
              enemy |-> NoEnemy, enemyAfter |-> NoEnemy, called |-> FALSE]

\* main.js update(): the body of levelPlatforms.forEach for one platform
resolveOne(types, p, plat) ==
    IF checkRectCollision(p, plat).hit
    THEN handlePlatformCollision(types, p, plat, checkRectCollision(p, plat))
    ELSE p

\* one resolution of the entity against the platform
Resolve ==
    /\ pc = "resolve"
    /\ player' = resolveOne(platformTypes, player, level.platforms[idx])
    /\ obs' = [Observe("handlePlatformCollision") EXCEPT
                  !.called = checkRectCollision(player, level.platforms[idx]).hit]
    /\ pc' = "resolved"
    /\ frame' = frame + 1
    /\ UNCHANGED <<engine, mgr, level, platformTypes, idx, budget, scen, hist>>

\* main.js update(): "Update moving platforms"
MovePlatforms ==
    /\ pc = "resolved"
    /\ \E mv \in {movePlatforms(level.platforms, platformTypes, level, 1)} :
          /\ level' = [level EXCEPT !.platforms = mv.plats]
          /\ platformTypes' = mv.types
    /\ obs' = Observe("movePlatforms")
    /\ pc' = "moved"
    /\ UNCHANGED <<player, engine, mgr, idx, frame, budget, scen, hist>>

\* the entity comes back to the platform: Player.update has given it another
\* position and velocity; isGrounded is as the last resolution left it
Approach ==
    /\ pc = "moved"
    /\ frame < MaxResolutions
    /\ \E px \in ResolveXs, py \in ResolveYs, sx \in ResolveSpeedXs, sy \in ResolveSpeedYs :
          /\ player' = [player EXCEPT !.x = px, !.y = py, !.speedX = sx, !.speedY = sy]
          /\ obs' = [Observe("Player.update") EXCEPT !.player = player']
    /\ pc' = "resolve"
    /\ UNCHANGED <<engine, mgr, level, platformTypes, idx, frame, budget, scen, hist>>

ResolveNext == Resolve \/ MovePlatforms \/ Approach

ResolveSpec == ResolveInit /\ [][ResolveNext]_vars

\* ------------------------------------------------------------- observations
\* the last step was one turn of checkCollisions that invoked
\* handleEnemyPlayerCollision; obs holds the player, the stats and the enemy
\* it was invoked with
Handled == obs.op = "checkCollisions" /\ obs.called

\* the four conditions of a stomp, on the state the handler was invoked with
StompConditions ==
    /\ obs.player.speedY >= -2 * U
    /\ obs.player.y + obs.player.height <= obs.enemy.y + 30 * U
    /\ Abs((obs.player.x + obs.player.width \div 2) - (obs.enemy.x + obs.enemy.width \div 2))
          < obs.enemy.width + 10 * U
    /\ "stomp" \in obs.enemy.vulnerabilities

\* what a stomp does: the score moves or the enemy is changed
StompEffect ==
    \/ engine.stats.score # obs.engine.stats.score
    \/ obs.enemyAfter # obs.enemy

\* what a hit does: the player's health moves
DamageEffect == engine.stats.health # obs.engine.stats.health

\* the last step was a Player.update that ran / that called jump()
Updated == obs.op = "Player.update" /\ obs.called
JumpExecuted == obs.op = "Player.update" /\ player.jumps > obs.player.jumps

\* the state Player.update started from: jump key down, released since the
\* last jump, not grounded
JumpRequestedInAir ==
    /\ Updated
    /\ obs.player.keys.up /\ obs.player.hasReleasedJump /\ ~obs.player.isGrounded

\* speedY after gravity alone
FreeFallSpeed == Min(obs.player.speedY + physGravity, terminalVelocity)

\* ------------------------------------------------------------------- claims
\* C1: for one overlapping player-enemy pair in one frame the handler fires
\* exactly one of the stomp effect and the damage effect: never both, and
\* never neither when the player is not invulnerable.
C1_StompXorDamage ==
    Handled =>
        /\ ~(StompEffect /\ DamageEffect)
        /\ (~obs.player.invulnerable => StompEffect \/ DamageEffect)

C1_Witness == Handled /\ ~obs.player.invulnerable /\ StompEffect /\ ~DamageEffect

\* C2: in one pass of update() handleEnemyPlayerCollision is invoked at most
\* once for each enemy; it is never invoked again for an enemy after it has
\* changed the player or that enemy in the frame.
C2_OncePerEnemyPerFrame ==
    \A i, j \in 1..Len(hist.calls) : hist.calls[i] = hist.calls[j] => i = j

C2_Witness == Len(hist.calls) = 2

\* C3: an overlap is treated as a stomp if and only if speedY >= -2, the
\* player's bottom is at most 30 px below the enemy's top, the centres are
\* less than enemy.width + 10 px apart and the enemy is stomp-vulnerable.
C3_StompIffConditions ==
    Handled =>
        (StompConditions <=>
            /\ engine.stats.score = obs.engine.stats.score + StompScore
            /\ player.speedY = StompBounce)

C3_Witness ==
    /\ Handled /\ StompConditions
    /\ obs.player.speedY = 0
    /\ engine.stats.score = obs.engine.stats.score + StompScore

\* C4 as stated: every stomp takes exactly 1 health from the enemy, sets
\* speedY to -18, raises the score and makes the player invulnerable for 10
\* frames; a 1-health enemy ends dead at health 0.
C4_StompAlwaysHurtsEnemy ==
    Handled /\ StompConditions =>
        /\ obs.enemyAfter.health = obs.enemy.health - 1
        /\ player.speedY = -18 * U
        /\ engine.stats.score > obs.engine.stats.score
        /\ player.invulnerable /\ player.invulnerabilityTime = 10
        /\ (obs.enemy.health = 1 => obs.enemyAfter.health = 0 /\ obs.enemyAfter.isDead)

\* C4 amended: every stomp sets speedY to -18, raises the score and makes the
\* player invulnerable for 10 frames; it takes exactly 1 health from the enemy
\* unless the enemy is invulnerable from an earlier hit, in which case the
\* enemy is left as it was; a 1-health enemy that is not invulnerable ends
\* dead at health 0.
C4_StompHurtsVulnerableEnemy ==
    Handled /\ StompConditions =>
        /\ player.speedY = -18 * U
        /\ engine.stats.score > obs.engine.stats.score
        /\ player.invulnerable /\ player.invulnerabilityTime = 10
        /\ (~obs.enemy.invulnerable => obs.enemyAfter.health = obs.enemy.health - 1)
        /\ (obs.enemy.invulnerable => obs.enemyAfter = obs.enemy)
        /\ (obs.enemy.health = 1 /\ ~obs.enemy.invulnerable =>
               obs.enemyAfter.health = 0 /\ obs.enemyAfter.isDead)

C4_Witness ==
    /\ Handled /\ StompConditions
    /\ obs.enemy.invulnerable
    /\ obs.enemyAfter.health = obs.enemy.health

\* C5: on an overlap that is not a stomp, a player who is not invulnerable
\* loses exactly enemy.damage health, gets speedX of magnitude 7 away from the
\* enemy's centre, speedY -8 and an invulnerability time of 60; a player who
\* is invulnerable keeps health, speedX, speedY and invulnerability time.
C5_DamageEffects ==
    Handled /\ ~StompConditions =>
        LET playerCenterX == obs.player.x + obs.player.width \div 2
            enemyCenterX == obs.enemy.x + obs.enemy.width \div 2
        IN IF ~obs.player.invulnerable
           THEN /\ engine.stats.health = obs.engine.stats.health - obs.enemy.damage
                /\ Abs(player.speedX) = 7 * U
                /\ (playerCenterX < enemyCenterX => player.speedX < 0)
                /\ (playerCenterX > enemyCenterX => player.speedX > 0)
                /\ player.speedY = -8 * U
                /\ player.invulnerabilityTime = 60
           ELSE /\ engine.stats.health = obs.engine.stats.health
                /\ player.speedX = obs.player.speedX
                /\ player.speedY = obs.player.speedY
                /\ player.invulnerabilityTime = obs.player.invulnerabilityTime

C5_Witness ==
    /\ Handled /\ ~StompConditions /\ ~obs.player.invulnerable
    /\ engine.stats.health = obs.engine.stats.health - obs.enemy.damage
    /\ player.invulnerabilityTime = 60

\* C6: the player's health is never reduced by a step that starts with the
\* player's invulnerabilityTime above 0, whether by an enemy or by an enemy
\* projectile, a second one in the same frame included.
C6_NoDamageWhileInvulnerable ==
    obs.player.invulnerabilityTime > 0 => engine.stats.health >= obs.engine.stats.health

\* C7 as stated: with the jump key down, hasReleasedJump true and the player
\* not grounded, Player.update jumps when coyoteTime is 5 and does not when it
\* is 6, and then speedY is changed by gravity only.
C7_CoyoteBoundaryGravityOnly ==
    JumpRequestedInAir =>
        /\ (obs.player.coyoteTime = 5 => JumpExecuted)
        /\ (obs.player.coyoteTime = 6 => ~JumpExecuted /\ player.speedY = FreeFallSpeed)

\* C7 amended: with the jump key down, hasReleasedJump true and the player
\* neither grounded nor dying, Player.update jumps when coyoteTime is 5 and
\* does not when it is 6; then speedY is changed by gravity and by the level
\* bounds only (not below 0 when stopped at the level top, not above 0 when
\* stopped at the level floor).
C7_CoyoteBoundary ==
    JumpRequestedInAir /\ obs.player.state # "dying" =>
        /\ (obs.player.coyoteTime = 5 => JumpExecuted)
        /\ (obs.player.coyoteTime = 6 =>
              /\ ~JumpExecuted
              /\ player.speedY =
                    IF obs.player.y + FreeFallSpeed < 0 THEN Max(0, FreeFallSpeed)
                    ELSE IF obs.player.y + FreeFallSpeed > level.pixelHeight - player.height
                    THEN Min(0, FreeFallSpeed)
                    ELSE FreeFallSpeed)

C7_Witness ==
    /\ JumpRequestedInAir /\ obs.player.state # "dying"
    /\ obs.player.coyoteTime = 6
    /\ ~JumpExecuted
    /\ player.speedY = FreeFallSpeed

\* C8: a player who left a platform without jumping does not jump more than
\* 6 frames after losing the support of every platform and of the level floor.
C8_NoJumpAfterCoyoteWindow ==
    JumpExecuted /\ obs.hist.wasSupported /\ ~obs.hist.jumpedSinceSupport =>
        obs.hist.airFrames <= 6

\* C9: after a jump no further jump executes until a key-up of the jump key
\* has set hasReleasedJump back to true, however long the key stays held.
C9_JumpEdgeTriggered == JumpExecuted => obs.hist.releasedSinceJump

C9_Witness == JumpExecuted /\ obs.player.jumps >= 1 /\ obs.hist.releasedSinceJump

\* C10: once a jump has executed, no second jump executes before the player
\* has been grounded again, even if the key is released and pressed again.
C10_SingleJump == hist.jumpsSinceGrounded <= 1

\* ------------------------------------------------- one enemy taking damage
\* EnemyBase.takeDamage called on one walker with amounts and damage types
\* drawn from the sets below, between the walker's own update() calls.
DamageAmounts == {1, 2}
DamageTypes == {"projectile", "stomp", "special"}
DamageCfgs == {[WalkerCfg EXCEPT !.health = h, !.vulnerabilities = v] :
                  h \in {1, 3}, v \in {{"projectile", "stomp"}, {"projectile"}, {"none"}}}

DamageInit ==
    /\ scen = 0
    /\ player = NewPlayer(0, 0)
    /\ engine = NewEngine(100)
    /\ \E cfg \in DamageCfgs :
          mgr = [NewManager EXCEPT !.enemies = <<NewWalker(1, 200 * U, 100 * U, cfg)>>]
    /\ level = [pixelWidth |-> LevelWidth, pixelHeight |-> LevelHeight,
                platforms |-> <<>>, spawnX |-> 0, spawnY |-> 0]
    /\ platformTypes = InitPlatformTypes
    /\ pc = "enemy"
    /\ idx = 1
    /\ frame = 0
    /\ budget = [keys |-> 0, shots |-> 0, jumps |-> 0]
    /\ hist = [airFrames |-> 0, wasSupported |-> FALSE, jumpedSinceSupport |-> FALSE,
               jumpsSinceGrounded |-> 0, releasedSinceJump |-> TRUE, calls |-> <<>>]
    /\ obs = [op |-> "init", enemy |-> mgr.enemies[1], enemyAfter |-> mgr.enemies[1],
              amount |-> 0, type |-> "none", called |-> FALSE]

\* enemy.takeDamage(amount, type)
TakeDamage(amount, type) ==
    /\ pc = "enemy"
    /\ mgr' = [mgr EXCEPT !.enemies[idx] = takeDamage(mgr.enemies[idx], amount, type)]
    /\ obs' = [op |-> "takeDamage", enemy |-> mgr.enemies[idx],
               enemyAfter |-> mgr'.enemies[idx], amount |-> amount, type |-> type,
               called |-> takeDamageReturns(mgr.enemies[idx], amount, type)]
    /\ UNCHANGED <<player, engine, level, platformTypes, pc, idx, frame, budget, scen, hist>>

\* enemy.update()
EnemyUpdate ==
    /\ pc = "enemy"
    /\ frame < MaxEnemyUpdates
    /\ mgr' = [mgr EXCEPT !.enemies[idx] = enemyUpdate(mgr.enemies[idx], FALSE)]
    /\ obs' = [op |-> "update", enemy |-> mgr.enemies[idx],
               enemyAfter |-> mgr'.enemies[idx], amount |-> 0, type |-> "none",
               called |-> FALSE]
    /\ frame' = frame + 1
    /\ UNCHANGED <<player, engine, level, platformTypes, pc, idx, budget, scen, hist>>

DamageNext ==
    \/ \E amount \in DamageAmounts, type \in DamageTypes : TakeDamage(amount, type)
    \/ EnemyUpdate

DamageSpec == DamageInit /\ [][DamageNext]_vars

\* ------------------------------------------------------- spawning enemies
\* EnemyManager.init(levelData) and EnemyManager.spawnEnemy on a manager that
\* starts as its constructor leaves it, for the level data and the spawn
\* requests below.
DeclaredWalkers(n) ==
    [k \in 1..n |-> [type |-> "walker", x |-> 100 * U, y |-> 256 * U, cfg |-> WalkerCfg]]
SpawnLevels ==
    {<<[type |-> "walker", x |-> 100 * U, y |-> 256 * U, cfg |-> WalkerCfg],
       [type |-> "boss", x |-> 200 * U, y |-> 256 * U, cfg |-> StrongCfg],
       [type |-> "walker", x |-> 300 * U, y |-> 256 * U, cfg |-> StrongCfg]>>,
     DeclaredWalkers(maxEnemies - 1),
     DeclaredWalkers(maxEnemies + 2)}
SpawnTypes == {"walker", "boss", "constructor"}
SpawnXs == {100 * U, 200 * U}

SpawnInit ==
    /\ scen = 0
    /\ player = NewPlayer(0, 0)
    /\ engine = NewEngine(100)
    /\ mgr = NewManager
    /\ level = [pixelWidth |-> LevelWidth, pixelHeight |-> LevelHeight,
                platforms |-> <<Ground>>, enemies |-> <<>>, spawnX |-> 0, spawnY |-> 0]
    /\ platformTypes = InitPlatformTypes
    /\ pc = "spawn"
    /\ idx = 0
    /\ frame = 0
    /\ budget = [loads |-> 0, spawns |-> 0]
    /\ hist = [airFrames |-> 0, wasSupported |-> FALSE, jumpedSinceSupport |-> FALSE,
               jumpsSinceGrounded |-> 0, releasedSinceJump |-> TRUE, calls |-> <<>>]
    /\ obs = [op |-> "constructor", type |-> "none", enemies |-> <<>>,
              totalEnemiesSpawned |-> 0, returnedNull |-> FALSE]

\* what one spawnEnemy call started from and returned
ObserveSpawn(type) ==
    [op |-> "spawnEnemy", type |-> type, enemies |-> mgr.enemies,
     totalEnemiesSpawned |-> mgr.totalEnemiesSpawned,
     returnedNull |-> spawnEnemyReturnsNull(mgr, type)]

\* EnemyManager.init(levelData): the three lists are emptied
LoadLevel(data) ==
    /\ pc = "spawn"
    /\ budget.loads < MaxLoads
    /\ level' = [level EXCEPT !.enemies = data]
    /\ mgr' = [mgr EXCEPT !.enemies = <<>>, !.enemyProjectiles = <<>>,
                          !.droppedItems = <<>>]
    /\ budget' = [budget EXCEPT !.loads = budget.loads + 1]
    /\ obs' = [ObserveSpawn("none") EXCEPT !.op = "init", !.returnedNull = FALSE]
    /\ pc' = "init"
    /\ idx' = 1
    /\ UNCHANGED <<player, engine, platformTypes, frame, scen, hist>>

\* EnemyManager.init(levelData): one turn of levelData.enemies.forEach
SpawnDeclared ==
    /\ pc = "init"
    /\ idx <= Len(level.enemies)
    /\ \E d \in {level.enemies[idx]} :
          /\ mgr' = spawnEnemy(mgr, d.type, d.x, d.y, d.cfg)
          /\ obs' = ObserveSpawn(d.type)
    /\ idx' = idx + 1
    /\ UNCHANGED <<player, engine, level, platformTypes, pc, frame, budget, scen, hist>>

\* EnemyManager.init(levelData): the forEach is over
LoadDone ==
    /\ pc = "init"
    /\ idx > Len(level.enemies)
    /\ pc' = "spawn"
    /\ idx' = 0
    /\ obs' = [ObserveSpawn("none") EXCEPT !.op = "initDone", !.returnedNull = FALSE]
    /\ UNCHANGED <<player, engine, mgr, level, platformTypes, frame, budget, scen, hist>>

\* EnemyManager.spawnEnemy(type, x, y, config) called on its own
SpawnEnemy(type, ex) ==
    /\ pc = "spawn"
    /\ budget.spawns < MaxSpawnCalls
    /\ mgr' = spawnEnemy(mgr, type, ex, 256 * U, WalkerCfg)
    /\ budget' = [budget EXCEPT !.spawns = budget.spawns + 1]
    /\ obs' = ObserveSpawn(type)
    /\ UNCHANGED <<player, engine, level, platformTypes, pc, idx, frame, scen, hist>>

SpawnNext ==
    \/ \E data \in SpawnLevels : LoadLevel(data)
    \/ SpawnDeclared
    \/ LoadDone
    \/ \E type \in SpawnTypes, ex \in SpawnXs : SpawnEnemy(type, ex)

SpawnSpec == SpawnInit /\ [][SpawnNext]_vars

\* ------------------------------------------------------------- ShootSpec
\* The projectile system of the player (holy water): the shoot key, the
\* charge, the cooldown and the live projectiles of a player that stands
\* still; lengths are in px.  The physical key is tracked next to what the
\* handlers were told, because the listeners of main.js drop the events of
\* a paused game.

\* the behaviours followed: where the player stands and looks, the charges
\* at which the shoot key is let go, whether the game gets paused and
\* whether enemies stand in the way of the projectiles
ShootScenarios ==
    << \* 1: rapid fire to the right from the left of the level
       [x |-> 100, right |-> TRUE, releases |-> {0, 1},
        pauses |-> 0, hits |-> 0],
       \* 2: 10 px from x = 2000, where a projectile leaves the screen on its
       \*    first update; short and full charges, with pauses
       [x |-> 1990, right |-> TRUE, releases |-> {0, 1, maxChargeTime},
        pauses |-> MaxPauses, hits |-> 0],
       \* 3: shooting to the left, 100 px from the left end, enemies in the way
       [x |-> 100, right |-> FALSE, releases |-> {0, 2},
        pauses |-> 0, hits |-> MaxProjectileHits],
       \* 4: fully charged shots to the right from the left of the level
       [x |-> 100, right |-> TRUE, releases |-> {maxChargeTime},
        pauses |-> 0, hits |-> 0] >>

\* Player constructor: position, state and the projectile system
NewShooter(px, right) ==
    [x |-> px, y |-> 176, width |-> PlayerWidth \div U, height |-> PlayerHeight \div U,
     state |-> "idle", facingRight |-> right, keys |-> [space |-> FALSE],
     projectiles |-> <<>>, chargeTime |-> 0, isCharging |-> FALSE, lastShotTime |-> 0]

\* what a step of ShootSpec leaves for inspection: the operation and the
\* player and engine it started from
ObserveShoot(op) == [op |-> op, player |-> player, engine |-> engine, hist |-> hist]

ShootInit ==
    /\ scen \in 1..Len(ShootScenarios)
    /\ player = NewShooter(ShootScenarios[scen].x, ShootScenarios[scen].right)
    /\ engine = NewEngine(100)
    /\ mgr = NewManager
    /\ level = [pixelWidth |-> 2400 * U, pixelHeight |-> LevelHeight,
                platforms |-> <<>>, spawnX |-> 0, spawnY |-> 0]
    /\ platformTypes = InitPlatformTypes
    /\ pc = "shoot"
    /\ idx = 0
    /\ frame = 0
    /\ budget = [pauses |-> 0, hits |-> 0]
    /\ hist = [held |-> FALSE, shots |-> 0, sinceShot |-> 0]
    /\ obs = [op |-> "init", player |-> player, engine |-> engine, hist |-> hist]

\* main.js keydown listener with the space bar (a press or an auto-repeat)
ShootKeyDown ==
    /\ pc = "shoot"
    /\ player' = IF engine.currentState = "playing" THEN handleKeyDown(player, "space")
                 ELSE player
    /\ hist' = [hist EXCEPT !.held = TRUE]
    /\ obs' = ObserveShoot("keydown")
    /\ UNCHANGED <<engine, mgr, level, platformTypes, pc, idx, frame, budget, scen>>

\* main.js keyup listener with the space bar; hist counts the shots fired
\* (up to maxProjectiles) and the Player.update steps since the last one
\* (up to shotCooldown + 1)
ShootKeyUp ==
    /\ pc = "shoot"
    /\ hist.held
    /\ player.chargeTime \in ShootScenarios[scen].releases
    /\ player' = IF engine.currentState = "playing" THEN handleKeyUp(player, "space")
                 ELSE player
    /\ hist' = [hist EXCEPT
          !.held = FALSE,
          !.shots = IF Len(player'.projectiles) > Len(player.projectiles)
                    THEN Min(hist.shots + 1, maxProjectiles) ELSE hist.shots,
          !.sinceShot = IF Len(player'.projectiles) > Len(player.projectiles)
                        THEN 0 ELSE hist.sinceShot]
    /\ obs' = ObserveShoot("keyup")
    /\ UNCHANGED <<engine, mgr, level, platformTypes, pc, idx, frame, budget, scen>>

\* GameEngine keydown listener: 'p' pauses and resumes
TogglePause ==
    /\ pc = "shoot"
    /\ budget.pauses < ShootScenarios[scen].pauses
    /\ engine.currentState \in {"playing", "paused"}
    /\ engine' = [engine EXCEPT !.currentState =
                     IF engine.currentState = "playing" THEN "paused" ELSE "playing"]
    /\ budget' = [budget EXCEPT !.pauses = budget.pauses + 1]
    /\ obs' = ObserveShoot("pause")
    /\ UNCHANGED <<player, mgr, level, platformTypes, pc, idx, frame, scen, hist>>

\* main.js update(): player.update() of a playing game; an enemy may stand in
\* the way of the projectiles
ShootFrame ==
    /\ pc = "shoot"
    /\ engine.currentState = "playing"
    /\ \E hits \in SUBSET (1..Len(player.projectiles)) :
          /\ budget.hits + Cardinality(hits) <= ShootScenarios[scen].hits
          /\ player' = shooterUpdate(player, hits)
          /\ budget' = [budget EXCEPT !.hits = budget.hits + Cardinality(hits)]
    /\ hist' = [hist EXCEPT !.sinceShot = Min(hist.sinceShot + 1, shotCooldown + 1)]
    /\ obs' = ObserveShoot("Player.update")
    /\ UNCHANGED <<engine, mgr, level, platformTypes, pc, idx, frame, scen>>

ShootNext ==
    \/ ShootKeyDown
    \/ ShootKeyUp
    \/ TogglePause
    \/ ShootFrame

ShootSpec == ShootInit /\ [][ShootNext]_vars

\* ----------------------------------------------------------- PhysicsSpec
\* Physics.applyGravity and Physics.applyMovement(body, 0) as functions of a
\* body's speed, called over and over on the same body; speeds in 1/100 px
\* per frame.

\* vertical speeds a body starts with, none above the terminal velocity
GravitySpeeds ==
    {-3000, -1500, -1470, -700, -35, 0, 1, 69, 700, 1430, 1431, 1499, terminalVelocity}
\* horizontal speeds a body starts with
FrictionSpeeds ==
    {-100000, -701, -700, -650, -11, -10, -9, -1, 0, 1, 9, 10, 11, 100, 650, 700,
     701, 2000}

PhysicsInit ==
    /\ scen = 0
    /\ pc \in {"gravity", "friction"}
    /\ \E sx \in FrictionSpeeds, sy \in GravitySpeeds :
          player = [speedX |-> IF pc = "friction" THEN sx ELSE 0,
                    speedY |-> IF pc = "gravity" THEN sy ELSE 0]
    /\ engine = NewEngine(100)
    /\ mgr = NewManager
    /\ level = [pixelWidth |-> LevelWidth, pixelHeight |-> LevelHeight,
                platforms |-> <<>>, spawnX |-> 0, spawnY |-> 0]
    /\ platformTypes = InitPlatformTypes
    /\ idx = 0
    /\ frame = 0
    /\ budget = [calls |-> 0]
    /\ hist = [start |-> player]
    /\ obs = [op |-> "init", body |-> player]

\* window.physics.applyGravity(body)
ApplyGravity ==
    /\ pc = "gravity"
    /\ frame < MaxPhysicsCalls
    /\ player' = applyGravity(player)
    /\ frame' = frame + 1
    /\ obs' = [op |-> "applyGravity", body |-> player]
    /\ UNCHANGED <<engine, mgr, level, platformTypes, pc, idx, budget, scen, hist>>

\* window.physics.applyMovement(body, 0)
ApplyFriction ==
    /\ pc = "friction"
    /\ frame < MaxPhysicsCalls
    /\ player' = applyMovement(player, 0)
    /\ frame' = frame + 1
    /\ obs' = [op |-> "applyMovement", body |-> player]
    /\ UNCHANGED <<engine, mgr, level, platformTypes, pc, idx, budget, scen, hist>>

PhysicsNext ==
    \/ ApplyGravity
    \/ ApplyFriction

PhysicsSpec == PhysicsInit /\ [][PhysicsNext]_vars

\* -------------------------------------------------------------- GridSpec
\* The spatial grid of CollisionDetection: updateSpatialGrid files every
\* object under the cells it touches, getNearbyObjects collects the objects
\* filed under the cells around the query; lengths in px.

\* Math.floor(a / this.gridSize)
GridIndex(a) == a \div gridSize

\* the Map key `${x},${y}` of a cell
GridKey(cx, cy) == ToString(cx) \o "," \o ToString(cy)

\* variant: an object is filed under the cell of its top-left corner only
GridCellsCornerOnly(o) == {GridKey(GridIndex(o.x), GridIndex(o.y))}

\* updateSpatialGrid: the keys under which one object is pushed
GridCells(o) ==
    {GridKey(cx, cy) : cx \in GridIndex(o.x)..GridIndex(o.x + o.width),
                       cy \in GridIndex(o.y)..GridIndex(o.y + o.height)}

\* CollisionDetection.updateSpatialGrid(objects): the Map after the call,
\* every list in the order of the pushes
updateSpatialGrid(objects) ==
    LET keys == UNION {GridCells(objects[k]) : k \in 1..Len(objects)}
        FiledUnder(key) == LET Here(o) == key \in GridCells(o)
                           IN SelectSeq(objects, Here)
    IN [key \in keys |-> FiledUnder(key)]

\* CollisionDetection.getNearbyObjects(obj): the members of the Set nearby
getNearbyObjects(grid, q) ==
    LET keys == {GridKey(cx, cy) :
                    cx \in GridIndex(q.x - gridSize)..GridIndex(q.x + q.width + gridSize),
                    cy \in GridIndex(q.y - gridSize)..GridIndex(q.y + q.height + gridSize)}
        ObjectsAt(key) == IF key \in DOMAIN grid
                          THEN {grid[key][k] : k \in 1..Len(grid[key])} ELSE {}
    IN UNION {ObjectsAt(key) : key \in keys}

\* positions and sizes of the objects and queries followed
GridXs == {-300, -129, -128, -1, 0, 127, 128, 300}
GridYs == {-130, 0}
GridSizes == {1, 128, 400}
GridRects ==
    {[x |-> gx, y |-> gy, width |-> w, height |-> 50] :
        gx \in GridXs, gy \in GridYs, w \in GridSizes}
\* a second object, far from most of the others
GridFarRects == {[x |-> 900, y |-> 900, width |-> 32, height |-> 32],
                 [x |-> -700, y |-> 0, width |-> 400, height |-> 400]}

GridInit ==
    /\ scen = 0
    /\ \E o \in GridRects : \E far \in GridFarRects :
          level = [objects |-> <<o, far>>]
    /\ mgr = [spatialGrid |-> << >>]
    /\ player = NewPlayer(0, 0)
    /\ engine = NewEngine(100)
    /\ platformTypes = InitPlatformTypes
    /\ pc = "grid"
    /\ idx = 0
    /\ frame = 0
    /\ budget = [queries |-> 0]
    /\ hist = [updates |-> 0]
    /\ obs = [op |-> "init", query |-> level.objects[1], nearby |-> {}]

\* collisionDetection.updateSpatialGrid(objects)
UpdateSpatialGrid ==
    /\ pc = "grid"
    /\ mgr' = [mgr EXCEPT !.spatialGrid = updateSpatialGrid(level.objects)]
    /\ pc' = "query"
    /\ obs' = [op |-> "updateSpatialGrid", query |-> obs.query, nearby |-> {}]
    /\ UNCHANGED <<player, engine, level, platformTypes, idx, frame, budget, scen, hist>>

\* collisionDetection.getNearbyObjects(q)
GetNearbyObjects(q) ==
    /\ pc = "query"
    /\ budget.queries < MaxQueries
    /\ obs' = [op |-> "getNearbyObjects", query |-> q,
               nearby |-> getNearbyObjects(mgr.spatialGrid, q)]
    /\ budget' = [budget EXCEPT !.queries = budget.queries + 1]
    /\ UNCHANGED <<player, engine, mgr, level, platformTypes, pc, idx, frame, scen, hist>>

GridNext ==
    \/ UpdateSpatialGrid
    \/ \E q \in GridRects : GetNearbyObjects(q)

GridSpec == GridInit /\ [][GridNext]_vars

\* ---------------------------------------------------------------- EnemyFlyer
\* Math.sin(t * 0.04) for t = 1 .. 220 (this.frequency is 0.04 unless the
\* level overrides it), in ten-thousandths
SinTable ==
    << 400, 799, 1197, 1593, 1987, 2377, 2764, 3146, 3523, 3894,
       4259, 4618, 4969, 5312, 5646, 5972, 6288, 6594, 6889, 7174,
       7446, 7707, 7956, 8192, 8415, 8624, 8820, 9001, 9168, 9320,
       9458, 9580, 9687, 9779, 9854, 9915, 9959, 9987, 9999, 9996,
       9976, 9940, 9889, 9822, 9738, 9640, 9526, 9396, 9252, 9093,
       8919, 8731, 8529, 8314, 8085, 7843, 7589, 7322, 7044, 6755,
       6454, 6144, 5823, 5494, 5155, 4808, 4454, 4092, 3724, 3350,
       2970, 2586, 2198, 1806, 1411, 1014, 616, 216, -184, -584,
       -982, -1380, -1775, -2167, -2555, -2940, -3320, -3694, -4063, -4425,
       -4780, -5128, -5467, -5797, -6119, -6430, -6731, -7021, -7301, -7568,
       -7823, -8066, -8296, -8513, -8716, -8905, -9080, -9240, -9386, -9516,
       -9631, -9731, -9816, -9884, -9937, -9974, -9995, -10000, -9989, -9962,
       -9919, -9860, -9785, -9695, -9589, -9468, -9332, -9181, -9015, -8835,
       -8640, -8432, -8210, -7975, -7728, -7468, -7196, -6912, -6618, -6313,
       -5997, -5673, -5339, -4996, -4646, -4288, -3924, -3553, -3176, -2794,
       -2408, -2018, -1625, -1229, -831, -432, -32, 368, 767, 1165,
       1562, 1955, 2346, 2733, 3115, 3493, 3865, 4231, 4590, 4941,
       5285, 5620, 5946, 6263, 6570, 6866, 7151, 7425, 7687, 7937,
       8174, 8397, 8608, 8805, 8987, 9155, 9309, 9447, 9571, 9679,
       9772, 9849, 9910, 9956, 9985, 9999, 9997, 9978, 9944, 9894,
       9827, 9746, 9648, 9535, 9407, 9264, 9106, 8934, 8747, 8546,
       8331, 8104, 7863, 7610, 7344, 7067, 6778, 6479, 6169, 5849 >>

\* a / b rounded to the nearest integer (b > 0)
RoundDiv(a, b) == (2 * a + b) \div (2 * b)

RECURSIVE SqrtBetween(_, _, _)
\* the largest r in lo .. hi with r * r <= n
SqrtBetween(n, lo, hi) ==
    IF lo = hi THEN lo
    ELSE LET mid == (lo + hi + 1) \div 2
         IN IF mid * mid <= n THEN SqrtBetween(n, mid, hi)
            ELSE SqrtBetween(n, lo, mid - 1)

\* Math.sqrt(dx * dx + dy * dy), to 1/100 px
Distance(dx, dy) == SqrtBetween(dx * dx + dy * dy, 0, Abs(dx) + Abs(dy))

FlyerCfg == [flyPattern |-> "dive", amplitude |-> 50 * U, direction |-> 1,
             vulnerabilities |-> {"projectile", "stomp"}]

\* new EnemyFlyer(x, y, config): EnemyBase constructor + flyer defaults;
\* patrolDistance is never assigned (undefined > 0 is false: 0 here)
NewFlyer(id, ex, ey, cfg) ==
    [id |-> id, x |-> ex, y |-> ey, width |-> 32 * U, height |-> 24 * U,
     speedX |-> 0, speedY |-> 0, baseSpeed |-> FlyerSpeed,
     health |-> 1, maxHealth |-> 1, damage |-> 10,
     invulnerable |-> FALSE, invulnerabilityTime |-> 0,
     vulnerabilities |-> cfg.vulnerabilities,
     drops |-> {"coin", "powerup"},
     isGrounded |-> FALSE, affectedByGravity |-> FALSE, collideWithPlatforms |-> FALSE,
     isDead |-> FALSE, deathTimer |-> 0, shouldRemove |-> FALSE, flashTimer |-> 0,
     detectionRange |-> DetectionRange,
     flyPattern |-> cfg.flyPattern, baseX |-> ex, baseY |-> ey,
     direction |-> cfg.direction, amplitude |-> cfg.amplitude, patternTimer |-> 0,
     patrolDistance |-> 0,
     isDiving |-> FALSE, diveTimer |-> 0, diveTarget |-> [x |-> 0, y |-> 0]]

\* EnemyBase.canSeePlayer(player)
canSeePlayer(e, p) ==
    /\ Abs(p.x - e.x) <= e.detectionRange
    /\ Abs(p.y - e.y) <= e.detectionRange
    /\ (p.x - e.x) * (p.x - e.x) + (p.y - e.y) * (p.y - e.y)
          <= e.detectionRange * e.detectionRange

\* EnemyFlyer.sineWavePattern(): what it adds to the base line this call
waveOffset(e) == RoundDiv(SinTable[e.patternTimer] * e.amplitude, 10000)

\* EnemyFlyer.sineWavePattern()
sineWavePattern(e) ==
    LET e1 == [e EXCEPT !.x = e.x + e.baseSpeed * e.direction,
                        !.y = e.baseY + waveOffset(e)]
        e2 == IF "stomp" \in e1.vulnerabilities
                 /\ e1.baseY + e1.amplitude < FlyerGroundLevel - 100 * U
              THEN [e1 EXCEPT !.baseY = FlyerGroundLevel - 100 * U - e1.amplitude]
              ELSE e1
    IN IF e2.patrolDistance > 0
       THEN IF Abs(e2.x - e2.baseX) >= e2.patrolDistance
            THEN [e2 EXCEPT !.direction = -e2.direction, !.baseX = e2.x]
            ELSE e2
       ELSE IF e2.x <= 0 \/ e2.x >= FlyerScreenEdge
            THEN [e2 EXCEPT !.direction = -e2.direction]
            ELSE e2

\* EnemyFlyer.startDive(player)
startDive(e, p) ==
    [e EXCEPT !.isDiving = TRUE,
              !.diveTarget = [x |-> p.x + p.width \div 2, y |-> p.y + p.height \div 2]]

\* variant: the end of a dive starts no recovery time
divePatternNoRecovery(e, p) ==
    IF e.isDiving
    THEN LET dx == e.diveTarget.x - e.x
             dy == e.diveTarget.y - e.y
             dist == Distance(dx, dy)
         IN IF dx * dx + dy * dy > (10 * U) * (10 * U)
            THEN [e EXCEPT !.speedX = RoundDiv(dx * diveSpeed, dist),
                           !.speedY = RoundDiv(dy * diveSpeed, dist),
                           !.x = e.x + RoundDiv(dx * diveSpeed, dist),
                           !.y = e.y + RoundDiv(dy * diveSpeed, dist)]
            ELSE [e EXCEPT !.isDiving = FALSE]
    ELSE LET e1 == sineWavePattern(e)
         IN IF e1.diveTimer > 0
            THEN [e1 EXCEPT !.diveTimer = e1.diveTimer - 1]
            ELSE IF canSeePlayer(e1, p)
                    /\ p.y - e1.y > 50 * U /\ Abs(p.x - e1.x) < 100 * U
                 THEN startDive(e1, p)
                 ELSE e1

\* EnemyFlyer.divePattern(); p is window.player
divePattern(e, p) ==
    IF e.isDiving
    THEN LET dx == e.diveTarget.x - e.x
             dy == e.diveTarget.y - e.y
             dist == Distance(dx, dy)
         IN IF dx * dx + dy * dy > (10 * U) * (10 * U)
            THEN [e EXCEPT !.speedX = RoundDiv(dx * diveSpeed, dist),
                           !.speedY = RoundDiv(dy * diveSpeed, dist),
                           !.x = e.x + RoundDiv(dx * diveSpeed, dist),
                           !.y = e.y + RoundDiv(dy * diveSpeed, dist)]
            ELSE [e EXCEPT !.isDiving = FALSE, !.diveTimer = diveRecoveryTime]
    ELSE LET e1 == sineWavePattern(e)
         IN IF e1.diveTimer > 0
            THEN [e1 EXCEPT !.diveTimer = e1.diveTimer - 1]
            ELSE IF canSeePlayer(e1, p)
                    /\ p.y - e1.y > 50 * U /\ Abs(p.x - e1.x) < 100 * U
                 THEN startDive(e1, p)
                 ELSE e1

\* EnemyFlyer.updateAI() (flyPattern 'sine' or 'dive')
flyerUpdateAI(e, p) ==
    LET e1 == [e EXCEPT !.patternTimer = e.patternTimer + 1]
    IN IF e1.flyPattern = "dive" THEN divePattern(e1, p) ELSE sineWavePattern(e1)

\* EnemyBase.update() of a flyer
flyerUpdate(e, p) ==
    LET UpdateFlash(q) ==
            IF q.flashTimer > 0 THEN [q EXCEPT !.flashTimer = q.flashTimer - 1] ELSE q
        ApplyPhysics(q) ==
            IF q.affectedByGravity /\ ~q.isGrounded THEN applyGravity(q) ELSE q
        ApplyMovement(q) == [q EXCEPT !.x = q.x + q.speedX, !.y = q.y + q.speedY]
        DeadOrAlive(q) ==
            IF q.isDead
            THEN [q EXCEPT !.deathTimer = q.deathTimer + 1,
                           !.shouldRemove =
                               q.shouldRemove \/ (q.deathTimer + 1 >= deathDuration)]
            ELSE ApplyMovement(flyerUpdateAI(ApplyPhysics(q), p))
    IN DeadOrAlive(UpdateFlash(TickInvulnerability(e)))

\* ------------------------------------------------- one walker on patrol
\* EnemyManager.update() with one walker in the list and the player out of
\* its reach, frame after frame, for the platform layouts, patrol distances
\* and start directions below.  The walker starts standing on the upper
\* platform of its layout.
PatrolFloor == Solid(50, 256, 300, 32)
\* a second platform 20 px under the top of the first: the edge probe of
\* patrolPattern (5 px under the walker's feet) finds it
PatrolDeck == Solid(50, 236, 300, 20)
\* a block on the deck, taller than a walker
PatrolWall == Solid(239, 186, 20, 50)

PatrolScenarios ==
    << \* 1: on a single floor, patrol distance 5 px
       [platforms |-> <<PatrolFloor>>, x |-> 200 * U, y |-> 224 * U,
        cfg |-> [WalkerCfg EXCEPT !.patrolDistance = 5 * U]],
       \* 2: on a single floor, patrol distance 2.5 px
       [platforms |-> <<PatrolFloor>>, x |-> 200 * U, y |-> 224 * U,
        cfg |-> [WalkerCfg EXCEPT !.patrolDistance = 250]],
       \* 3: on a deck over the floor, patrol distance 10 px, nothing in the way
       [platforms |-> <<PatrolDeck, PatrolFloor>>, x |-> 150 * U, y |-> 204 * U,
        cfg |-> [WalkerCfg EXCEPT !.patrolDistance = 10 * U]],
       \* 4: the same, starting to the left
       [platforms |-> <<PatrolDeck, PatrolFloor>>, x |-> 150 * U, y |-> 204 * U,
        cfg |-> [WalkerCfg EXCEPT !.patrolDistance = 10 * U, !.startDirection = -1]],
       \* 5: on the deck, a wall 9 px to the right, patrol distance 10 px
       [platforms |-> <<PatrolDeck, PatrolFloor, PatrolWall>>,
        x |-> 198 * U, y |-> 204 * U,
        cfg |-> [WalkerCfg EXCEPT !.patrolDistance = 10 * U]],
       \* 6: on the deck, 7 px from the right end of deck and floor, patrol
       \*    distance 10 px
       [platforms |-> <<PatrolDeck, PatrolFloor>>, x |-> 311 * U, y |-> 204 * U,
        cfg |-> [WalkerCfg EXCEPT !.patrolDistance = 10 * U]],
       \* 7: no patrol distance configured
       [platforms |-> <<PatrolDeck, PatrolFloor>>, x |-> 150 * U, y |-> 204 * U,
        cfg |-> WalkerCfg] >>

\* EnemyBase.update() of a live enemy up to and including updateAI()
afterAI(e, rnd) ==
    updateAI(IF e.affectedByGravity /\ ~e.isGrounded THEN applyGravity(e) ELSE e, rnd)

PatrolInit ==
    /\ scen \in 1..Len(PatrolScenarios)
    /\ player = NewPlayer(0, 0)
    /\ engine = NewEngine(100)
    /\ mgr = spawnEnemy(NewManager, "walker", PatrolScenarios[scen].x,
                        PatrolScenarios[scen].y, PatrolScenarios[scen].cfg)
    /\ level = [pixelWidth |-> LevelWidth, pixelHeight |-> LevelHeight,
                platforms |-> PatrolScenarios[scen].platforms,
                spawnX |-> 0, spawnY |-> 0]
    /\ platformTypes = InitPlatformTypes
    /\ pc = "patrol"
    /\ idx = 1
    /\ frame = 0
    /\ budget = [keys |-> 0, shots |-> 0, jumps |-> 0]
    /\ hist = [turns |-> 0]
    /\ obs = [op |-> "init", enemy |-> mgr.enemies[1], ai |-> mgr.enemies[1]]

\* EnemyManager.update(): the enemy loop, then checkCollisions()
PatrolFrame ==
    /\ pc = "patrol"
    /\ frame < MaxPatrolFrames
    /\ Len(mgr.enemies) = 1
    /\ \E jumpers \in SUBSET JumpCandidates :
       \E rolls \in SUBSET DropTypes :
       \E m0 \in {[enemies |-> mgr.enemies, droppedItems |-> mgr.droppedItems,
                   totalEnemiesDefeated |-> mgr.totalEnemiesDefeated]} :
       \E m1 \in {updateEnemyAt(m0, 1, level, jumpers,
                                [id \in EnemyIds(mgr) |-> rolls])} :
          /\ budget.jumps + Cardinality(jumpers) <= MaxWalkerJumps
          /\ (rolls # {} => m1.enemies = <<>>)
          /\ mgr' = [mgr EXCEPT
                !.enemies = [k \in 1..Len(m1.enemies) |->
                                collideEnemy(World, m1.enemies[k], level.platforms).enemy],
                !.droppedItems = m1.droppedItems,
                !.totalEnemiesDefeated = m1.totalEnemiesDefeated]
          /\ budget' = [budget EXCEPT !.jumps = budget.jumps + Cardinality(jumpers)]
          /\ obs' = [op |-> "update", enemy |-> mgr.enemies[1],
                     ai |-> afterAI(mgr.enemies[1], mgr.enemies[1].id \in jumpers)]
          /\ hist' = [turns |-> IF m1.enemies # <<>>
                                   /\ mgr'.enemies[1].direction # mgr.enemies[1].direction
                                THEN Min(hist.turns + 1, 2) ELSE hist.turns]
    /\ frame' = frame + 1
    /\ UNCHANGED <<player, engine, level, platformTypes, pc, idx, scen>>

PatrolNext == PatrolFrame

PatrolSpec == PatrolInit /\ [][PatrolNext]_vars

\* ------------------------------------------------------ one flyer in a level
\* main.js update() frame after frame in a level that holds one flyer: the
\* enemy loop and checkCollisions() of EnemyManager.update(), Player.update()
\* and the player against the platforms.  The level is 800 x 640 px with the
\* ground at y = 576 (the ground level sineWavePattern assumes); the player
\* stands on the ground and no key is pressed.
FlyerGround == Solid(0, 576, 800, 64)
ArmouredCfg == [FlyerCfg EXCEPT !.vulnerabilities = {"projectile"}]

FlyerScenarios ==
    << \* 1: a dive flyer that cannot be stomped, the player 20 px to its right
       [x |-> 300 * U, y |-> 350 * U, cfg |-> ArmouredCfg, playerX |-> 320 * U],
       \* 2: the same, the player 60 px to its left
       [x |-> 300 * U, y |-> 350 * U, cfg |-> ArmouredCfg, playerX |-> 240 * U],
       \* 3: the dive flyer of the test level (stompable, amplitude 50), the
       \*    player 200 px to its right
       [x |-> 300 * U, y |-> 350 * U, cfg |-> FlyerCfg, playerX |-> 500 * U],
       \* 4: the same flyer flying left, away from the player
       [x |-> 300 * U, y |-> 350 * U,
        cfg |-> [FlyerCfg EXCEPT !.direction = -1], playerX |-> 600 * U],
       \* 5: a flyer with the sine pattern over the player
       [x |-> 300 * U, y |-> 350 * U,
        cfg |-> [ArmouredCfg EXCEPT !.flyPattern = "sine"], playerX |-> 320 * U] >>

\* no dive has ended yet
NoDiveYet == -1

FlyerInit ==
    /\ scen \in 1..Len(FlyerScenarios)
    /\ player = NewPlayer(FlyerScenarios[scen].playerX, 464 * U)
    /\ engine = NewEngine(100)
    /\ mgr = [NewManager EXCEPT
                 !.enemies = <<NewFlyer(1, FlyerScenarios[scen].x, FlyerScenarios[scen].y,
                                        FlyerScenarios[scen].cfg)>>,
                 !.totalEnemiesSpawned = 1]
    /\ level = [pixelWidth |-> 800 * U, pixelHeight |-> 640 * U,
                platforms |-> <<FlyerGround>>,
                spawnX |-> FlyerScenarios[scen].playerX, spawnY |-> 464 * U]
    /\ platformTypes = InitPlatformTypes
    /\ pc = "flyer"
    /\ idx = 1
    /\ frame = 0
    /\ budget = [keys |-> 0, shots |-> 0, jumps |-> 0]
    /\ hist = [sinceDive |-> NoDiveYet, tempted |-> FALSE, dives |-> 0]
    /\ obs = [op |-> "init", enemy |-> mgr.enemies[1], updated |-> mgr.enemies[1],
              player |-> player, hist |-> hist]

\* the dive test of divePattern, without the timer
WouldDive(e, p) ==
    canSeePlayer(e, p) /\ p.y - e.y > 50 * U /\ Abs(p.x - e.x) < 100 * U

\* history of the flyer: AI updates since its last dive ended, whether the
\* dive test was true in one of them, dives started so far (up to 2)
FlyerHistory(h, e, e1, p) ==
    IF e.isDead THEN h
    ELSE [sinceDive |-> IF e.isDiving /\ ~e1.isDiving THEN 0
                        ELSE IF e1.isDiving \/ h.sinceDive = NoDiveYet THEN NoDiveYet
                        ELSE Min(h.sinceDive + 1, diveRecoveryTime + 1),
          tempted |-> IF e.isDiving \/ e1.isDiving \/ h.sinceDive = NoDiveYet THEN FALSE
                      ELSE h.tempted \/ WouldDive(sineWavePattern(
                               [e EXCEPT !.patternTimer = e.patternTimer + 1]), p),
          dives |-> IF ~e.isDiving /\ e1.isDiving THEN Min(h.dives + 1, 2) ELSE h.dives]

\* main.js update(): one frame
FlyerFrame ==
    /\ pc = "flyer"
    /\ frame < MaxFlyerFrames
    /\ Len(mgr.enemies) = 1
    /\ engine.currentState = "playing" /\ ~engine.deathAnimation.active
    /\ \E rolls \in SUBSET {"coin", "powerup"} :
       \E e1 \in {flyerUpdate(mgr.enemies[1], player)} :
       \E e2 \in {IF e1.y > level.pixelHeight + KillPlaneMargin
                   THEN [e1 EXCEPT !.shouldRemove = TRUE] ELSE e1} :
       \E r \in {collideEnemy(World, e2, level.platforms)} :
       \E w \in {IF e2.shouldRemove THEN World
                  ELSE [player |-> r.player, engine |-> r.engine]} :
          /\ (rolls # {} => e2.shouldRemove)
          /\ mgr' = IF e2.shouldRemove
                    THEN [mgr EXCEPT
                             !.enemies = <<>>,
                             !.droppedItems = mgr.droppedItems \o dropLoot(e2, rolls),
                             !.totalEnemiesDefeated = mgr.totalEnemiesDefeated + 1]
                    ELSE [mgr EXCEPT !.enemies = <<r.enemy>>]
          /\ engine' = w.engine
          /\ player' = playerVsPlatforms(platformTypes, PlayerUpdate(w.player, level),
                                         level.platforms, 1)
          /\ hist' = FlyerHistory(hist, mgr.enemies[1], e1, player)
          /\ obs' = [op |-> "update", enemy |-> mgr.enemies[1], updated |-> e1,
                     player |-> player, hist |-> hist]
    /\ frame' = frame + 1
    /\ UNCHANGED <<level, platformTypes, pc, idx, budget, scen>>

FlyerNext == FlyerFrame

FlyerSpec == FlyerInit /\ [][FlyerNext]_vars

\* ------------------------------------------------ the engine's life cycle
\* The engine alone: menu, level loads, playing frames with the level's
\* gravity multiplier and time limit, deaths, respawns, game over, restart.
\* engine carries two more fields here: levelTime (in frames) and gravity,
\* the value of window.physics.gravity as an exact fraction of model units.

\* levels of the life cycle: gravity is the multiplier as a fraction,
\* timeLimit is in frames (0: none)
EngineLevels ==
    << [gravity |-> [num |-> 1, den |-> 2], timeLimit |-> 0,
        pixelWidth |-> 800 * U, pixelHeight |-> 640 * U, platforms |-> << >>,
        spawnX |-> 100 * U, spawnY |-> 400 * U],
       [gravity |-> [num |-> 3, den |-> 2], timeLimit |-> 3,
        pixelWidth |-> 800 * U, pixelHeight |-> 640 * U, platforms |-> << >>,
        spawnX |-> 200 * U, spawnY |-> 300 * U],
       [gravity |-> [num |-> 1, den |-> 1], timeLimit |-> 0,
        pixelWidth |-> 800 * U, pixelHeight |-> 640 * U, platforms |-> << >>,
        spawnX |-> 300 * U, spawnY |-> 200 * U] >>

NoLevel == [EngineLevels[3] EXCEPT !.spawnX = 0, !.spawnY = 0]

NoDeathYet == -1

RECURSIVE Pow(_, _)
Pow(b, k) == IF k = 0 THEN 1 ELSE b * Pow(b, k - 1)

\* window.physics.gravity *= currentLevel.gravity
MultiplyGravity(g, m) == [num |-> g.num * m.num, den |-> g.den * m.den]

\* variant: the multiplication starts from the constructor's value each frame
updatePlayingResetGravity(w, lvl) ==
    IF w.engine.deathAnimation.active THEN updateDeathAnimation(w, lvl)
    ELSE LET w1 == [w EXCEPT !.engine.levelTime = w.engine.levelTime + 1]
         IN IF lvl.timeLimit > 0 /\ w1.engine.levelTime > lvl.timeLimit
            THEN playerDeath(w1)
            ELSE LET w2 == IF lvl.gravity.num # lvl.gravity.den
                           THEN [w1 EXCEPT !.engine.gravity =
                                    MultiplyGravity([num |-> physGravity, den |-> 1],
                                                    lvl.gravity)]
                           ELSE w1
                 IN IF w2.player.y > lvl.pixelHeight + 100 * U
                    THEN playerDeath(w2) ELSE w2

\* GameEngine.updatePlaying() of a level without enemies, collectibles and goal
updatePlaying(w, lvl) ==
    IF w.engine.deathAnimation.active THEN updateDeathAnimation(w, lvl)
    ELSE LET w1 == [w EXCEPT !.engine.levelTime = w.engine.levelTime + 1]
         IN IF lvl.timeLimit > 0 /\ w1.engine.levelTime > lvl.timeLimit
            THEN playerDeath(w1)
            ELSE LET w2 == IF lvl.gravity.num # lvl.gravity.den
                           THEN [w1 EXCEPT !.engine.gravity =
                                    MultiplyGravity(w1.engine.gravity, lvl.gravity)]
                           ELSE w1
                 IN IF w2.player.y > lvl.pixelHeight + 100 * U
                    THEN playerDeath(w2) ELSE w2

\* the frame got past the two early returns of updatePlaying
LiveFrame(w, lvl) ==
    /\ ~w.engine.deathAnimation.active
    /\ ~(lvl.timeLimit > 0 /\ w.engine.levelTime + 1 > lvl.timeLimit)

\* GameEngine.init(levelPath), the level already loaded
engineInit(w, lvl) ==
    [player |-> [w.player EXCEPT !.x = lvl.spawnX, !.y = lvl.spawnY,
                                 !.keys = NoKeys, !.speedX = 0, !.speedY = 0],
     engine |-> [w.engine EXCEPT !.currentState = "playing"]]

\* GameEngine.restartLevel()
restartLevel(w, lvl) ==
    LET w1 == [w EXCEPT !.engine.stats.lives = 3,
                        !.engine.stats.health = w.engine.stats.maxHealth,
                        !.engine.levelTime = 0,
                        !.player.keys = NoKeys,
                        !.player.speedX = 0, !.player.speedY = 0]
        w2 == respawnPlayer(w1, lvl)
    IN [w2 EXCEPT !.engine.currentState = "playing"]

\* the Escape branch of the engine's keydown handler
escapeKey(w) ==
    IF w.engine.currentState = "playing"
    THEN [w EXCEPT !.engine.currentState = "menu"]
    ELSE IF w.engine.currentState = "game_over"
    THEN [w EXCEPT !.engine.stats.lives = 3,
                   !.engine.stats.health = w.engine.stats.maxHealth,
                   !.engine.currentState = "menu"]
    ELSE w

EngineInit ==
    /\ player = NewPlayer(0, 0)
    /\ engine = [stats |-> [health |-> 100, maxHealth |-> 100, lives |-> 3, score |-> 0],
                 deathAnimation |-> [active |-> FALSE, timer |-> 0],
                 currentState |-> "menu",
                 levelTime |-> 0,
                 gravity |-> [num |-> physGravity, den |-> 1]]
    /\ mgr = NewManager
    /\ level = NoLevel
    /\ platformTypes = InitPlatformTypes
    /\ pc = "engine"
    /\ idx = 0
    /\ frame = 0
    /\ budget = [loads |-> 0, restarts |-> 0, escapes |-> 0]
    /\ scen = 1
    /\ hist = [live |-> <<0, 0, 0>>, sinceDeath |-> NoDeathYet]
    /\ obs = [op |-> "init", player |-> player, engine |-> engine, level |-> 0,
              since |-> NoDeathYet]

EngineKeep == UNCHANGED <<mgr, platformTypes, pc, frame, scen>>

\* "Play Game" or a level of the level select screen: gameEngine.init(path)
EngineLoad ==
    /\ pc = "engine"
    /\ engine.currentState = "menu"
    /\ budget.loads < MaxLoads
    /\ \E l \in 1..Len(EngineLevels) :
          LET w == engineInit(World, EngineLevels[l])
          IN /\ player' = w.player
             /\ engine' = w.engine
             /\ level' = EngineLevels[l]
             /\ idx' = l
             /\ obs' = [op |-> "init", player |-> player, engine |-> engine, level |-> idx,
              since |-> hist.sinceDeath]
    /\ budget' = [budget EXCEPT !.loads = @ + 1]
    /\ UNCHANGED hist
    /\ EngineKeep

\* gameEngine.update() in state PLAYING
EngineFrame ==
    /\ pc = "engine"
    /\ engine.currentState = "playing"
    /\ LiveFrame(World, level) =>
          hist.live[1] + hist.live[2] + hist.live[3] < MaxEngineFrames
    /\ LET w == updatePlaying(World, level)
           died == ~engine.deathAnimation.active /\ w.engine.deathAnimation.active
       IN /\ player' = w.player
          /\ engine' = w.engine
          /\ hist' = [live |-> IF LiveFrame(World, level)
                               THEN [hist.live EXCEPT ![idx] = @ + 1]
                               ELSE hist.live,
                      sinceDeath |-> IF died THEN 0
                                     ELSE IF ~w.engine.deathAnimation.active
                                     THEN NoDeathYet
                                     ELSE hist.sinceDeath + 1]
    /\ obs' = [op |-> "update", player |-> player, engine |-> engine, level |-> idx,
              since |-> hist.sinceDeath]
    /\ UNCHANGED <<level, idx, budget>>
    /\ EngineKeep

\* gameEngine.playerDeath() called between two frames (damage, hazards)
EngineDeath ==
    /\ pc = "engine"
    /\ engine.currentState = "playing"
    /\ LET w == playerDeath(World)
       IN /\ player' = w.player
          /\ engine' = w.engine
    /\ hist' = [hist EXCEPT !.sinceDeath =
                   IF engine.deathAnimation.active THEN @ ELSE 0]
    /\ obs' = [op |-> "playerDeath", player |-> player, engine |-> engine, level |-> idx,
              since |-> hist.sinceDeath]
    /\ UNCHANGED <<level, idx, budget>>
    /\ EngineKeep

\* the R key on the game over screen
EngineRestart ==
    /\ pc = "engine"
    /\ engine.currentState = "game_over"
    /\ budget.restarts < MaxRestarts
    /\ LET w == restartLevel(World, level)
       IN /\ player' = w.player
          /\ engine' = w.engine
    /\ budget' = [budget EXCEPT !.restarts = @ + 1]
    /\ hist' = [hist EXCEPT !.sinceDeath = NoDeathYet]
    /\ obs' = [op |-> "restart", player |-> player, engine |-> engine, level |-> idx,
              since |-> hist.sinceDeath]
    /\ UNCHANGED <<level, idx>>
    /\ EngineKeep

\* the Escape key while playing or on the game over screen, pressed while no
\* death animation runs
EngineEscape ==
    /\ pc = "engine"
    /\ engine.currentState \in {"playing", "game_over"}
    /\ ~engine.deathAnimation.active
    /\ budget.escapes < MaxEscapes
    /\ LET w == escapeKey(World)
       IN /\ player' = w.player
          /\ engine' = w.engine
    /\ obs' = [op |-> "escape", player |-> player, engine |-> engine, level |-> idx,
              since |-> hist.sinceDeath]
    /\ budget' = [budget EXCEPT !.escapes = @ + 1]
    /\ UNCHANGED <<level, idx, hist>>
    /\ EngineKeep

EngineNext ==
    \/ EngineLoad
    \/ EngineFrame
    \/ EngineDeath
    \/ EngineRestart
    \/ EngineEscape

EngineSpec == EngineInit /\ [][EngineNext]_vars

\* ------------------------------------------- a level with a breastplate
\* One frame of main.js update() in a level with a breastplate power-up and
\* at most one walker. mgr carries two more fields here, the state of the
\* collectibles manager: collectibles and activePowerUps.

PowerGround == Solid(0, 576, 800, 64)

\* CollectiblesManager.spawnCollectible('breastplate', x, y)
NewBreastplate(bx, by) ==
    [type |-> "breastplate", x |-> bx, y |-> by,
     width |-> 28 * U, height |-> 24 * U, collected |-> FALSE]

\* starting situations: the player stands on the ground at playerX
PowerUpScenarios ==
    << \* 1: a breastplate at the player's position, no enemy
       [playerX |-> 100 * U, items |-> <<NewBreastplate(110 * U, 500 * U)>>,
        enemies |-> << >>],
       \* 2: the same with a walker that cannot be stomped next to the player
       [playerX |-> 100 * U, items |-> <<NewBreastplate(110 * U, 500 * U)>>,
        enemies |-> <<NewWalker(1, 150 * U, 544 * U,
                                [SpikyCfg EXCEPT !.startDirection = -1])>>],
       \* 3: the walker without a breastplate
       [playerX |-> 100 * U, items |-> << >>,
        enemies |-> <<NewWalker(1, 150 * U, 544 * U,
                                [SpikyCfg EXCEPT !.startDirection = -1])>>] >>

\* CollectiblesManager.activatePowerUp('breastplate'); c = [w, cm]
activatePowerUp(c) ==
    [w |-> [c.w EXCEPT !.player.invulnerable = TRUE],
     cm |-> [c.cm EXCEPT !.activePowerUps.breastplate =
                            [active |-> TRUE, timer |-> BreastplateDuration]]]

\* CollectiblesManager.deactivatePowerUp('breastplate')
deactivatePowerUp(c) ==
    [w |-> [c.w EXCEPT !.player.invulnerable = FALSE],
     cm |-> [c.cm EXCEPT !.activePowerUps.breastplate =
                            [active |-> FALSE, timer |-> 0]]]

\* CollectiblesManager.updatePowerUps()
updatePowerUps(c) ==
    IF c.cm.activePowerUps.breastplate.active
    THEN LET c1 == [c EXCEPT !.cm.activePowerUps.breastplate.timer = @ - 1]
         IN IF c1.cm.activePowerUps.breastplate.timer <= 0
            THEN deactivatePowerUp(c1) ELSE c1
    ELSE c

RECURSIVE checkPlayerCollection(_, _)
\* CollectiblesManager.checkPlayerCollection() with collectItem, from item k on
checkPlayerCollection(c, k) ==
    IF k > Len(c.cm.collectibles) THEN c
    ELSE LET item == c.cm.collectibles[k]
             p == c.w.player
         IN IF /\ ~item.collected
               /\ p.x < item.x + item.width /\ p.x + p.width > item.x
               /\ p.y < item.y + item.height /\ p.y + p.height > item.y
            THEN checkPlayerCollection(
                     activatePowerUp([c EXCEPT !.cm.collectibles[k].collected = TRUE]),
                     k + 1)
            ELSE checkPlayerCollection(c, k + 1)

\* CollectiblesManager.update()
collectiblesUpdate(c) == checkPlayerCollection(updatePowerUps(c), 1)

PowerUpInit ==
    /\ scen \in 1..Len(PowerUpScenarios)
    /\ player = NewPlayer(PowerUpScenarios[scen].playerX, 464 * U)
    /\ engine = NewEngine(100)
    /\ mgr = [enemies |-> PowerUpScenarios[scen].enemies,
              enemyProjectiles |-> << >>, droppedItems |-> << >>,
              totalEnemiesSpawned |-> Len(PowerUpScenarios[scen].enemies),
              totalEnemiesDefeated |-> 0,
              collectibles |-> PowerUpScenarios[scen].items,
              activePowerUps |-> [breastplate |-> [active |-> FALSE, timer |-> 0]]]
    /\ level = [pixelWidth |-> 800 * U, pixelHeight |-> 640 * U,
                platforms |-> <<PowerGround>>,
                spawnX |-> PowerUpScenarios[scen].playerX, spawnY |-> 464 * U]
    /\ platformTypes = InitPlatformTypes
    /\ pc = "powerup"
    /\ idx = 1
    /\ frame = 0
    /\ budget = [keys |-> 0, shots |-> 0, jumps |-> 0]
    /\ hist = [hits |-> 0]
    /\ obs = [op |-> "init", player |-> player, engine |-> engine, mgr |-> mgr]

\* GameEngine.updatePlaying() up to collectiblesManager.update();
\* result [w, mgr]
powerUpPlaying(w, m, lvl, rolls) ==
    IF w.engine.deathAnimation.active
    THEN [w |-> updateDeathAnimation(w, lvl), mgr |-> m]
    ELSE LET m0 == [enemies |-> m.enemies, droppedItems |-> m.droppedItems,
                    totalEnemiesDefeated |-> m.totalEnemiesDefeated]
             m1 == updateEnemies(m0, Len(m.enemies), lvl, {},
                                 [id \in EnemyIds(m) |-> rolls])
             r == IF m1.enemies = << >>
                  THEN [player |-> w.player, engine |-> w.engine, enemies |-> << >>]
                  ELSE LET q == collideEnemy(w, m1.enemies[1], lvl.platforms)
                       IN [player |-> q.player, engine |-> q.engine,
                           enemies |-> <<q.enemy>>]
             c == collectiblesUpdate(
                      [w |-> [player |-> r.player, engine |-> r.engine],
                       cm |-> [collectibles |-> m.collectibles,
                               activePowerUps |-> m.activePowerUps]])
         IN [w |-> c.w,
             mgr |-> [m EXCEPT !.enemies = r.enemies,
                               !.droppedItems = m1.droppedItems,
                               !.totalEnemiesDefeated = m1.totalEnemiesDefeated,
                               !.collectibles = c.cm.collectibles,
                               !.activePowerUps = c.cm.activePowerUps]]

\* main.js update(): one frame
PowerUpFrame ==
    /\ pc = "powerup"
    /\ frame < MaxPowerUpFrames
    /\ engine.currentState = "playing"
    /\ \E rolls \in SUBSET DropTypes :
       \E r \in {powerUpPlaying(World, mgr, level, rolls)} :
          /\ (rolls # {} => Len(r.mgr.enemies) < Len(mgr.enemies))
          /\ mgr' = r.mgr
          /\ engine' = r.w.engine
          /\ player' = IF r.w.engine.currentState = "playing"
                       THEN playerVsPlatforms(platformTypes,
                                PlayerUpdate(r.w.player, level), level.platforms, 1)
                       ELSE r.w.player
          /\ hist' = [hits |-> IF r.w.engine.stats.health < engine.stats.health
                               THEN Min(hist.hits + 1, 2) ELSE hist.hits]
    /\ obs' = [op |-> "update", player |-> player, engine |-> engine, mgr |-> mgr]
    /\ frame' = frame + 1
    /\ UNCHANGED <<level, platformTypes, pc, idx, budget, scen>>

PowerUpNext == PowerUpFrame

PowerUpSpec == PowerUpInit /\ [][PowerUpNext]_vars

\* ------------------------------------------------- one walker under fire
\* One frame of main.js update() for a player who shoots and walks and one
\* walker, with the keys pressed at the frames a script names. Projectiles
\* carry two more fields here, fracX and fracY: what the player's x and y
\* had beyond whole pixels when they were fired, in model units.

InertGround == Solid(0, 576, 800, 64)

\* key scripts: the events in order, each with the frame before which it
\* arrives
InertScripts ==
    << \* 1: two shots from where the player stands
       <<[at |-> 0, key |-> "space", down |-> TRUE],
         [at |-> 1, key |-> "space", down |-> FALSE],
         [at |-> 17, key |-> "space", down |-> TRUE],
         [at |-> 18, key |-> "space", down |-> FALSE]>>,
       \* 2: one shot, then the player walks to the right
       <<[at |-> 0, key |-> "space", down |-> TRUE],
         [at |-> 1, key |-> "space", down |-> FALSE],
         [at |-> 12, key |-> "right", down |-> TRUE]>>,
       \* 3: the player walks to the right without a shot
       <<[at |-> 0, key |-> "right", down |-> TRUE]>>,
       \* 4: one shot, a jump, and a turn to the right in the air
       <<[at |-> 0, key |-> "space", down |-> TRUE],
         [at |-> 1, key |-> "space", down |-> FALSE],
         [at |-> 10, key |-> "up", down |-> TRUE],
         [at |-> 28, key |-> "right", down |-> TRUE]>> >>

\* the walker's distance from the player's right side, in px
InertGaps == {120, 130}

InertScenarios ==
    << [script |-> 1, cfg |-> WalkerCfg], [script |-> 2, cfg |-> WalkerCfg],
       [script |-> 3, cfg |-> WalkerCfg], [script |-> 4, cfg |-> WalkerCfg],
       [script |-> 1, cfg |-> StrongCfg] >>

\* a player projectile as a rectangle, in 1/300 px
ProjectileBox(pr) ==
    [x |-> 5 * ProjectileX60(pr) + 3 * pr.fracX,
     y |-> 5 * ProjectileY60(pr) + 3 * pr.fracY,
     width |-> 2400 + 40 * pr.charge, height |-> 1800]

\* an enemy as a rectangle, in 1/300 px
EnemyBox(e) == [x |-> 3 * e.x, y |-> 3 * e.y, width |-> 3 * e.width,
                height |-> 3 * e.height]

RECURSIVE checkPlayerProjectile(_, _, _)
\* EnemyManager.checkPlayerProjectile(projectile), from enemy k on;
\* result [hit, enemies]
checkPlayerProjectile(pr, enemies, k) ==
    IF k > Len(enemies) THEN [hit |-> FALSE, enemies |-> enemies]
    ELSE IF enemies[k].isDead THEN checkPlayerProjectile(pr, enemies, k + 1)
    ELSE IF /\ checkRectCollision(ProjectileBox(pr), EnemyBox(enemies[k])).hit
            /\ takeDamageReturns(enemies[k], 1, "projectile")
    THEN [hit |-> TRUE,
          enemies |-> [enemies EXCEPT ![k] = takeDamage(enemies[k], 1, "projectile")]]
    ELSE checkPlayerProjectile(pr, enemies, k + 1)

RECURSIVE updateProjectilesVsEnemies(_, _)
\* Player.updateProjectiles() with the enemy manager present, from projectile
\* i down; s = [projs, enemies, score]
updateProjectilesVsEnemies(s, i) ==
    IF i = 0 THEN s
    ELSE LET pr == [s.projs[i] EXCEPT !.age = s.projs[i].age + 1]
             c == checkPlayerProjectile(pr, s.enemies, 1)
             b == ProjectileBox(pr)
             gone == \/ c.hit
                     \/ ProjectileLifetime(pr) <= 0
                     \/ b.x < 300 * ProjectileMinX
                     \/ b.x > 300 * ProjectileMaxX
                     \/ b.y > 300 * ProjectileMaxY
         IN updateProjectilesVsEnemies(
                [projs |-> IF gone THEN RemoveAt(s.projs, i)
                           ELSE [s.projs EXCEPT ![i] = pr],
                 enemies |-> c.enemies,
                 score |-> IF c.hit THEN s.score + ProjectileScore ELSE s.score],
                i - 1)

\* Player.handleKeyDown / handleKeyUp for a player whose position is held in
\* model units: the projectile of a shot starts at the player's position
inertKey(p, key, down) ==
    LET px == [p EXCEPT !.x = p.x \div U, !.y = p.y \div U,
                        !.width = p.width \div U, !.height = p.height \div U]
        q == IF down THEN handleKeyDown(px, key) ELSE handleKeyUp(px, key)
        shot == Len(q.projectiles) > Len(p.projectiles)
        fired == q.projectiles[Len(q.projectiles)]
    IN [q EXCEPT !.x = p.x, !.y = p.y, !.width = p.width, !.height = p.height,
                 !.projectiles =
                     IF shot
                     THEN Append(p.projectiles,
                                 [x0 |-> fired.x0, y3 |-> fired.y3,
                                  charge |-> fired.charge, right |-> fired.right,
                                  age |-> fired.age,
                                  fracX |-> p.x % U, fracY |-> p.y % U])
                     ELSE p.projectiles]

InertInit ==
    /\ scen \in 1..Len(InertScenarios)
    /\ player = [x |-> 100 * U, y |-> 464 * U, width |-> PlayerWidth,
                 height |-> PlayerHeight, speedX |-> 0, speedY |-> 0,
                 state |-> "idle", facingRight |-> TRUE, idleTimer |-> 0,
                 isGrounded |-> FALSE, coyoteTime |-> 0, hasReleasedJump |-> TRUE,
                 invulnerable |-> FALSE, invulnerabilityTime |-> 0,
                 keys |-> [left |-> FALSE, right |-> FALSE, up |-> FALSE,
                           space |-> FALSE],
                 jumps |-> 0, projectiles |-> << >>, chargeTime |-> 0,
                 isCharging |-> FALSE, lastShotTime |-> 0]
    /\ engine = NewEngine(100)
    /\ \E gap \in InertGaps :
          mgr = [NewManager EXCEPT
                    !.enemies = <<NewWalker(1, 156 * U + gap * U, 544 * U,
                                            InertScenarios[scen].cfg)>>,
                    !.totalEnemiesSpawned = 1]
    /\ level = [pixelWidth |-> 800 * U, pixelHeight |-> 640 * U,
                platforms |-> <<InertGround>>,
                spawnX |-> 100 * U, spawnY |-> 464 * U]
    /\ platformTypes = InitPlatformTypes
    /\ pc = "inert"
    /\ idx = 1
    /\ frame = 0
    /\ budget = [keys |-> 0, shots |-> 0, jumps |-> 0]
    /\ hist = [deadFrames |-> 0]
    /\ obs = [op |-> "init", player |-> player, engine |-> engine, mgr |-> mgr,
              afterEngine |-> World, beforeProjectiles |-> player]

\* the next event of the script is due
InertKeyDue ==
    /\ idx <= Len(InertScripts[InertScenarios[scen].script])
    /\ InertScripts[InertScenarios[scen].script][idx].at <= frame

\* a keydown or keyup event of the script
InertKey ==
    /\ pc = "inert"
    /\ InertKeyDue
    /\ LET ev == InertScripts[InertScenarios[scen].script][idx]
       IN player' = inertKey(player, ev.key, ev.down)
    /\ idx' = idx + 1
    /\ obs' = [op |-> "key", player |-> player, engine |-> engine, mgr |-> mgr,
               afterEngine |-> World, beforeProjectiles |-> player]
    /\ UNCHANGED <<engine, mgr, level, platformTypes, pc, frame, budget, scen, hist>>

\* GameEngine.updatePlaying() with one enemy at most: result [w, mgr]
inertPlaying(w, m, lvl, rolls) ==
    IF w.engine.deathAnimation.active
    THEN [w |-> updateDeathAnimation(w, lvl), mgr |-> m]
    ELSE LET m0 == [enemies |-> m.enemies, droppedItems |-> m.droppedItems,
                    totalEnemiesDefeated |-> m.totalEnemiesDefeated]
             m1 == updateEnemies(m0, Len(m.enemies), lvl, {},
                                 [id \in EnemyIds(m) |-> rolls])
             r == IF m1.enemies = << >>
                  THEN [player |-> w.player, engine |-> w.engine, enemies |-> << >>]
                  ELSE LET q == collideEnemy(w, m1.enemies[1], lvl.platforms)
                       IN [player |-> q.player, engine |-> q.engine,
                           enemies |-> <<q.enemy>>]
         IN [w |-> [player |-> r.player, engine |-> r.engine],
             mgr |-> [m EXCEPT !.enemies = r.enemies,
                               !.droppedItems = m1.droppedItems,
                               !.totalEnemiesDefeated = m1.totalEnemiesDefeated]]

\* main.js update(): one frame
InertFrame ==
    /\ pc = "inert"
    /\ ~InertKeyDue
    /\ frame < MaxInertFrames
    /\ engine.currentState = "playing"
    /\ \E rolls \in SUBSET DropTypes :
       \E r \in {inertPlaying(World, mgr, level, rolls)} :
       \E p1 \in {updateCharge(PlayerUpdate(r.w.player, level))} :
       \E s \in {IF p1.state = "dying"
                 THEN [projs |-> p1.projectiles, enemies |-> r.mgr.enemies,
                       score |-> r.w.engine.stats.score]
                 ELSE updateProjectilesVsEnemies(
                          [projs |-> p1.projectiles, enemies |-> r.mgr.enemies,
                           score |-> r.w.engine.stats.score],
                          Len(p1.projectiles))} :
          /\ (rolls # {} => Len(r.mgr.enemies) < Len(mgr.enemies))
          /\ mgr' = [r.mgr EXCEPT !.enemies = s.enemies]
          /\ engine' = [r.w.engine EXCEPT !.stats.score = s.score]
          /\ player' = playerVsPlatforms(platformTypes,
                                         [p1 EXCEPT !.projectiles = s.projs],
                                         level.platforms, 1)
          /\ obs' = [op |-> "update", player |-> player, engine |-> engine,
                     mgr |-> mgr, afterEngine |-> r.w, beforeProjectiles |-> p1]
          /\ hist' = [deadFrames |->
                         IF mgr.enemies # << >> /\ mgr.enemies[1].isDead
                         THEN hist.deadFrames + 1 ELSE hist.deadFrames]
    /\ frame' = frame + 1
    /\ UNCHANGED <<level, platformTypes, pc, idx, budget, scen>>

InertNext ==
    \/ InertKey
    \/ InertFrame

InertSpec == InertInit /\ [][InertNext]_vars

\* ------------------------------------------- the player among platforms
\* Frames of main.js update() in levels without enemies: Player.update, the
\* player against every platform in the order of the level's list, then the
\* moving platforms.

CorridorFloor == Solid(0, 576, 800, 64)

\* layouts, with the keys that are down from the start; the player starts
\* standing on the floor at startX
CorridorScenarios ==
    << \* 1: walking under a block whose underside is 3 px below the player's
       \*    head
       [platforms |-> <<CorridorFloor, Solid(200, 400, 100, 67)>>,
        startX |-> 100 * U, right |-> TRUE],
       \* 2: walking against a wall that stands on the floor
       [platforms |-> <<CorridorFloor, Solid(200, 376, 20, 200)>>,
        startX |-> 100 * U, right |-> TRUE],
       \* 3: walking over the seam of two floor tiles
       [platforms |-> <<Solid(0, 576, 150, 64), Solid(150, 576, 650, 64)>>,
        startX |-> 60 * U, right |-> TRUE],
       \* 4: standing against a wall while a low platform that moves right
       \*    arrives from the left
       [platforms |-> <<CorridorFloor, Solid(256, 376, 20, 200),
                        [Solid(150, 556, 40, 20) EXCEPT !.type = "platform_r_slow"]>>,
        startX |-> 200 * U, right |-> FALSE],
       \* 5: the block of layout 1 listed before the floor
       [platforms |-> <<Solid(200, 400, 100, 67), CorridorFloor>>,
        startX |-> 100 * U, right |-> TRUE] >>

CorridorInit ==
    /\ scen \in 1..Len(CorridorScenarios)
    /\ player = [NewPlayer(CorridorScenarios[scen].startX, 464 * U) EXCEPT
                    !.keys.right = CorridorScenarios[scen].right,
                    !.isGrounded = TRUE]
    /\ engine = NewEngine(100)
    /\ mgr = NewManager
    /\ level = [pixelWidth |-> 800 * U, pixelHeight |-> 640 * U,
                platforms |-> CorridorScenarios[scen].platforms,
                spawnX |-> CorridorScenarios[scen].startX, spawnY |-> 464 * U]
    /\ platformTypes = InitPlatformTypes
    /\ pc = "corridor"
    /\ idx = 1
    /\ frame = 0
    /\ budget = [keys |-> 0, shots |-> 0, jumps |-> 0]
    /\ hist = [resolutions |-> 0]
    /\ obs = [op |-> "init", player |-> player, updated |-> player,
              platforms |-> level.platforms]

\* GameEngine.updatePlaying() in a level without enemies or collectibles
corridorPlaying(w, lvl) ==
    IF w.engine.deathAnimation.active THEN updateDeathAnimation(w, lvl)
    ELSE IF w.player.y > lvl.pixelHeight + 100 * U THEN playerDeath(w)
    ELSE w

\* main.js update(): one frame; obs keeps the player before the frame and
\* after Player.update, and the platforms as the player met them
CorridorFrame ==
    /\ pc = "corridor"
    /\ frame < MaxCorridorFrames
    /\ engine.currentState = "playing"
    /\ \E w \in {corridorPlaying(World, level)} :
       \E p1 \in {IF w.engine.currentState = "playing"
                  THEN PlayerUpdate(w.player, level) ELSE w.player} :
       \E p2 \in {IF w.engine.currentState = "playing"
                  THEN playerVsPlatforms(platformTypes, p1, level.platforms, 1)
                  ELSE p1} :
       \E mv \in {IF w.engine.currentState = "playing"
                  THEN movePlatforms(level.platforms, platformTypes, level, 1)
                  ELSE [plats |-> level.platforms, types |-> platformTypes]} :
          /\ engine' = w.engine
          /\ player' = p2
          /\ level' = [level EXCEPT !.platforms = mv.plats]
          /\ platformTypes' = mv.types
          /\ obs' = [op |-> "update", player |-> player, updated |-> p1,
                     platforms |-> level.platforms]
          /\ hist' = [resolutions |->
                         IF \E k \in 1..Len(level.platforms) :
                               checkRectCollision(p1, level.platforms[k]).hit
                         THEN Min(hist.resolutions + 1, 2) ELSE hist.resolutions]
    /\ frame' = frame + 1
    /\ UNCHANGED <<mgr, pc, idx, budget, scen>>

CorridorNext == CorridorFrame

CorridorSpec == CorridorInit /\ [][CorridorNext]_vars

\* ------------------------------------------- observations of one resolution
\* the last step resolved an overlap of the entity with the platform; obs
\* holds the entity it started from
Resolved == obs.op = "handlePlatformCollision" /\ obs.called
ThePlatform == level.platforms[idx]
OverlapX == Min(obs.player.x + obs.player.width - ThePlatform.x,
                ThePlatform.x + ThePlatform.width - obs.player.x)
OverlapY == Min(obs.player.y + obs.player.height - ThePlatform.y,
                ThePlatform.y + ThePlatform.height - obs.player.y)
FromLeft == obs.player.x < ThePlatform.x
FromTop == obs.player.y < ThePlatform.y
OneWayType == ThePlatform.type = "oneway"
BouncyType == ThePlatform.type \in {"bouncy_platform", "super_bouncy_platform"}
MovingType == ThePlatform.type = "platform_r_slow"

\* the overlap is neither let through by a one-way platform nor bounced
GenericResolution ==
    /\ Resolved
    /\ ~(OneWayType /\ obs.player.speedY <= 0)
    /\ ~(BouncyType /\ FromTop /\ obs.player.speedY > 0)

\* C11: a generic resolution is horizontal (x flush to the platform's side,
\* speedX 0, y kept, speedY kept or slowed by the wall slide) exactly when
\* overlapX < overlapY, and vertical (y flush to the platform's top or
\* bottom, speedY 0, speedX kept) otherwise, a tie included.
C11_SmallerOverlapAxis ==
    GenericResolution =>
        IF OverlapX < OverlapY
        THEN /\ player.x = IF FromLeft THEN ThePlatform.x - obs.player.width
                            ELSE ThePlatform.x + ThePlatform.width
             /\ player.speedX = 0
             /\ player.y = obs.player.y
             /\ \/ player.speedY = obs.player.speedY
                \/ /\ ~obs.player.isGrounded /\ obs.player.speedY > 0
                   /\ player.speedY >= 0 /\ player.speedY <= 2 * U
                   /\ player.speedY < obs.player.speedY
             /\ player.isGrounded = obs.player.isGrounded
        ELSE /\ player.y = IF FromTop THEN ThePlatform.y - obs.player.height
                            ELSE ThePlatform.y + ThePlatform.height
             /\ player.speedY = 0
             /\ player.speedX = obs.player.speedX
             /\ (~MovingType => player.x = obs.player.x)

C11_Witness ==
    /\ GenericResolution
    /\ OverlapX = OverlapY
    /\ player.y = ThePlatform.y - obs.player.height
    /\ player.x = obs.player.x
    /\ obs.player.speedY > 0 /\ player.speedY = 0

\* the player of the landing example: (100, 500), falling at 5, over the
\* solid platform at (50, 540)
LandingExample ==
    /\ Resolved
    /\ ThePlatform.type = "solid"
    /\ obs.player.x = 100 * U /\ obs.player.y = 500 * U /\ obs.player.speedY = 5 * U

\* C12: the landing example ends with y = 540 - height, speedY 0 and
\* isGrounded; every vertical resolution from the top ends with
\* y = platform.y - height, speedY 0 and isGrounded.
C12_Landing ==
    /\ LandingExample =>
          /\ player.y = 540 * U - player.height
          /\ player.speedY = 0
          /\ player.isGrounded
    /\ GenericResolution /\ OverlapX >= OverlapY /\ FromTop =>
          /\ player.y = ThePlatform.y - player.height
          /\ player.speedY = 0
          /\ player.isGrounded

C12_Witness ==
    /\ LandingExample
    /\ ~obs.player.isGrounded
    /\ player.y = 428 * U /\ player.speedY = 0 /\ player.isGrounded

\* the entity was above the platform before this frame's move and has
\* fallen into it: its top is above the platform's top and its bottom is no
\* deeper in the platform than one frame's fall
LandsFromAbove ==
    /\ obs.player.speedY > 0
    /\ FromTop
    /\ obs.player.y + obs.player.height - obs.player.speedY <= ThePlatform.y

\* C13: on a one-way platform an overlapping entity with speedY <= 0 is left
\* exactly as it was; one with speedY > 0 that lands from above is put on the
\* platform's top with speedY 0 and isGrounded.
C13_OneWay ==
    Resolved /\ OneWayType =>
        /\ (obs.player.speedY <= 0 => player = obs.player)
        /\ (LandsFromAbove =>
               /\ player.y = ThePlatform.y - player.height
               /\ player.speedY = 0
               /\ player.isGrounded)

\* the resolution is a bounce: bouncy platform, from the top, falling
Bounce == Resolved /\ BouncyType /\ FromTop /\ obs.player.speedY > 0
\* bouncePower of the platform's type, in tenths
BouncePowerTenths == IF ThePlatform.type = "bouncy_platform" THEN 15 ELSE 20

\* C14: a bounce sets speedY to -min(35, speedY * bouncePower) (10 at power
\* 1.5 gives -15) and moves nothing else; whatever the incoming speeds of a
\* sequence of bounces, speedY is never below -35 after one.
C14_BounceCap ==
    Bounce =>
        /\ player.speedY = -Min(35 * U, (obs.player.speedY * BouncePowerTenths) \div 10)
        /\ (obs.player.speedY = 10 * U /\ BouncePowerTenths = 15 => player.speedY = -15 * U)
        /\ player.speedY >= -35 * U
        /\ player.x = obs.player.x /\ player.y = obs.player.y
        /\ player.speedX = obs.player.speedX

C14_Witness ==
    /\ Bounce
    /\ frame = 2
    /\ obs.player.speedY * BouncePowerTenths > 350 * U
    /\ player.speedY = -35 * U

\* C15: takeDamage(amount, type) returns false and changes no field of the
\* enemy when type is not among its vulnerabilities, or it is invulnerable,
\* or it is dead; otherwise it returns true, health goes down by exactly
\* amount, and then the enemy either dies (health <= 0) or becomes
\* invulnerable for 30 frames.
C15_TakeDamage ==
    obs.op = "takeDamage" =>
        IF \/ obs.type \notin obs.enemy.vulnerabilities
           \/ obs.enemy.invulnerable
           \/ obs.enemy.isDead
        THEN ~obs.called /\ obs.enemyAfter = obs.enemy
        ELSE /\ obs.called
             /\ obs.enemyAfter.health = obs.enemy.health - obs.amount
             /\ IF obs.enemyAfter.health <= 0
                THEN obs.enemyAfter.isDead /\ obs.enemyAfter.deathTimer = 0
                ELSE /\ ~obs.enemyAfter.isDead
                     /\ obs.enemyAfter.invulnerable
                     /\ obs.enemyAfter.invulnerabilityTime = 30

C15_Witness ==
    /\ obs.op = "takeDamage" /\ obs.called
    /\ obs.enemy.health = 2 /\ obs.amount = 2
    /\ obs.enemyAfter.isDead /\ obs.enemyAfter.health = 0

\* C16: every enemy spliced out of the live list was either dead and in its
\* 30th pass of the update loop since it died, or had a y above
\* level.pixelHeight + 100 in that pass; no enemy stays in the list once it
\* has been dead for 30 passes; an enemy that is alive and inside the level
\* is never spliced out; an enemy that was spliced out is not in the list
\* again.
C16_EnemyRemoval ==
    /\ \A k \in 1..Len(hist.removals) :
          /\ \/ hist.removals[k].wasDead /\ hist.removals[k].deadUpdates = 30
             \/ hist.removals[k].y > level.pixelHeight + 100 * U
          /\ (~hist.removals[k].wasDead =>
                 hist.removals[k].yBefore + 32 * U > level.pixelHeight)
          /\ hist.removals[k].id \notin EnemyIds(mgr)
    /\ \A i \in 1..Len(mgr.enemies) : hist.deadFor[mgr.enemies[i].id] < 30
    /\ mgr.totalEnemiesDefeated = Len(hist.removals)

C16_Witness ==
    /\ Len(hist.removals) = 1
    /\ hist.removals[1].wasDead /\ hist.removals[1].deadUpdates = 30
    /\ hist.removals[1].y <= level.pixelHeight
    /\ Len(mgr.enemies) = 1 /\ ~mgr.enemies[1].isDead

\* C17: the list never holds more than maxEnemies (50) enemies; a spawnEnemy
\* call made with 50 or more in the list returns null and leaves the list,
\* every enemy in it and totalEnemiesSpawned as they were; a level load that
\* declares more than 50 enemies ends with 50.
C17_EnemyCap ==
    /\ Len(mgr.enemies) <= 50
    /\ (obs.op = "spawnEnemy" /\ Len(obs.enemies) >= 50 =>
           /\ obs.returnedNull
           /\ mgr.enemies = obs.enemies
           /\ mgr.totalEnemiesSpawned = obs.totalEnemiesSpawned)
    /\ (obs.op = "initDone" /\ Len(level.enemies) > 50 => Len(mgr.enemies) = 50)

C17_Witness ==
    /\ pc = "init" /\ idx = 53
    /\ obs.op = "spawnEnemy" /\ obs.type = "walker"
    /\ Len(obs.enemies) = 50
    /\ obs.totalEnemiesSpawned > 50
    /\ obs.returnedNull /\ mgr.enemies = obs.enemies

\* C18: spawnEnemy with a type that is not in the registry (walker, flyer)
\* returns null and leaves the list, the enemies in it and
\* totalEnemiesSpawned as they were.
C18_UnknownTypeRejected ==
    obs.op = "spawnEnemy" /\ obs.type \notin {"walker", "flyer"} =>
        /\ obs.returnedNull
        /\ mgr.enemies = obs.enemies
        /\ mgr.totalEnemiesSpawned = obs.totalEnemiesSpawned

\* the platform's type is not a key of the platform type table
UnknownType == ThePlatform.type \in {"moving_platform", "constructor", "undefined"}

\* C19: against a platform whose type is not in the table (or is missing)
\* the resolution leaves the entity exactly as it would for the same platform
\* with type 'solid', and the moving-platform loop of update() passes over
\* the platform and completes.
C19_UnknownTypeIsSolid ==
    UnknownType =>
        /\ (obs.op = "handlePlatformCollision" =>
               player = resolveOne(platformTypes, obs.player,
                                   [ThePlatform EXCEPT !.type = "solid"]))
        /\ (obs.op = "movePlatforms" =>
               /\ pc = "moved"
               /\ ThePlatform.x = 50 * U /\ ThePlatform.y = 540 * U
               /\ platformTypes = InitPlatformTypes)

C19_Witness ==
    /\ UnknownType
    /\ obs.op = "movePlatforms" /\ pc = "moved"
    /\ player.isGrounded /\ player.y = ThePlatform.y - player.height

\* a frame is over in which gameEngine.update() ran EnemyManager.update and
\* the game was still playing afterwards; hist.phases is the frame's log
FullFrameDone ==
    /\ pc = "idle" /\ frame >= 1
    /\ Len(hist.phases) = 4

\* C20 as stated: in each playing frame Player.update runs first, then the
\* player-vs-platform resolution, then EnemyManager.update, then the
\* enemy-vs-player and projectile collisions.
C20_PlayerBeforeEnemies ==
    FullFrameDone =>
        hist.phases = <<"Player.update", "player-vs-platform",
                        "EnemyManager.update", "enemy-vs-player">>

\* C20 amended: in each such frame EnemyManager.update (enemy AI/physics,
\* enemy-vs-platform, enemy-vs-player, projectile collisions) runs first,
\* then Player.update, then the player-vs-platform resolution; and
\* EnemyManager.update starts from the player's position and velocity as the
\* previous frame's platform resolution left them (as spawned, in the first
\* frame).
C20_EnemiesBeforePlayer ==
    /\ FullFrameDone =>
          hist.phases = <<"EnemyManager.update", "enemy-vs-player",
                          "Player.update", "player-vs-platform">>
    /\ obs.op = "gameEngine.update" /\ pc = "collide" =>
          Kinematics(obs.player) = obs.hist.afterPlatforms

C20_Witness ==
    /\ obs.op = "gameEngine.update" /\ pc = "collide"
    /\ frame >= 1
    /\ obs.player.keys.up
    /\ Len(obs.hist.phases) = 4
    /\ obs.hist.phases[1] = "EnemyManager.update"
    /\ obs.hist.phases[4] = "player-vs-platform"
    /\ Kinematics(obs.player) = obs.hist.afterPlatforms

\* positions of the frame's event log at which an event of the kind stands
EventsOf(what) == {k \in 1..Len(hist.events) : hist.events[k].what = what}

\* C21 as stated: every enemy's AI/physics update comes before any platform
\* collision is resolved, and every enemy's platform resolution comes before
\* any enemy-vs-player collision is resolved.
C21_PhasesForAllEnemies ==
    /\ \A u \in EventsOf("update") : \A p \in EventsOf("platforms") : u < p
    /\ \A p \in EventsOf("platforms") : \A c \in EventsOf("player") : p < c

\* C21 amended: every enemy's AI/physics update comes before any platform
\* collision is resolved and before any enemy-vs-player collision; each
\* enemy that collides with platforms is resolved against them right before
\* it is tested against the player, ahead of the platform resolution of the
\* enemies that follow it in the list.
C21_PhasesPerEnemy ==
    /\ \A u \in EventsOf("update") :
          \A p \in EventsOf("platforms") \cup EventsOf("player") : u < p
    /\ \A c \in EventsOf("player") :
          \A p \in EventsOf("platforms") :
             /\ hist.events[p].id = hist.events[c].id => p = c - 1
             /\ p > c => \A q \in EventsOf("player") :
                            hist.events[q].id = hist.events[p].id => q > p
    /\ pc = "collide" /\ obs.op = "checkCollisions" /\ obs.called
       /\ obs.enemy.collideWithPlatforms
          => \E c \in EventsOf("player") :
                /\ hist.events[c].id = obs.enemy.id
                /\ c - 1 \in EventsOf("platforms")
                /\ hist.events[c - 1].id = obs.enemy.id

\* two enemies in one frame: the first has met the player before the second
\* is resolved against the platforms
C21_Witness ==
    \E c \in EventsOf("player") : \E p \in EventsOf("platforms") :
       /\ p = c + 1
       /\ hist.events[p].id # hist.events[c].id
       /\ c - 1 \in EventsOf("platforms")
       /\ Cardinality(EventsOf("update")) >= 2

\* the step just taken was the gameEngine.update() in which
\* updateDeathAnimation reached its duration and called respawnPlayer
RespawnStep ==
    /\ obs.op = "gameEngine.update"
    /\ obs.engine.deathAnimation.active
    /\ obs.engine.deathAnimation.timer + 1 >= DeathAnimationDuration
    /\ obs.engine.stats.lives > 0

\* C22: once the player is dying, every frame phase and every key event
\* leaves player.state at 'dying'; only the respawnPlayer call ends it, and
\* it sets the state to 'idle'.
C22_DyingUntilRespawn ==
    obs.player.state = "dying" =>
        IF RespawnStep THEN player.state = "idle" /\ ~engine.deathAnimation.active
        ELSE player.state = "dying"

\* the respawn, after a death animation during which the jump key went down
C22_Witness ==
    /\ RespawnStep
    /\ obs.player.state = "dying"
    /\ obs.player.keys.up
    /\ player.state = "idle"
    /\ player.x = level.spawnX /\ player.y = level.spawnY

\* the last step was a release of the shoot key that fired a projectile
Fired ==
    /\ obs.op = "keyup"
    /\ Len(player.projectiles) = Len(obs.player.projectiles) + 1

\* C23: the player never has more than maxProjectiles live projectiles, a
\* shot that follows another comes at least shotCooldown Player.update steps
\* after it, and a release of the shoot key while the list is full or the
\* cooldown runs fires nothing.
C23_ShotLimits ==
    /\ Len(player.projectiles) <= maxProjectiles
    /\ Fired /\ obs.hist.shots >= 1 => obs.hist.sinceShot >= shotCooldown
    /\ obs.op = "keyup"
       /\ (Len(obs.player.projectiles) >= maxProjectiles \/ obs.player.lastShotTime > 0)
          => player.projectiles = obs.player.projectiles

\* a charged release with three projectiles alive fires nothing
C23_Witness ==
    /\ obs.op = "keyup"
    /\ obs.player.isCharging /\ obs.player.chargeTime > 0
    /\ Len(obs.player.projectiles) = maxProjectiles
    /\ obs.player.lastShotTime = 0
    /\ player.projectiles = obs.player.projectiles
    /\ hist.shots = maxProjectiles
    /\ hist.sinceShot = shotCooldown + 1

\* C24: chargeTime stays within [0, maxChargeTime]; it grows only in a
\* Player.update step, by exactly 1, with the shoot key held and no cooldown
\* running; and every release of the shoot key resets it to 0.
C24_ChargeOnlyWhileHeld ==
    /\ player.chargeTime >= 0 /\ player.chargeTime <= maxChargeTime
    /\ player.chargeTime > obs.player.chargeTime =>
          /\ obs.op = "Player.update"
          /\ player.chargeTime = obs.player.chargeTime + 1
          /\ obs.hist.held
          /\ obs.player.lastShotTime <= 0
    /\ obs.op = "keyup" => player.chargeTime = 0

\* C25: starting at or below the terminal velocity, every applyGravity call
\* gives min(speedY + gravity, terminalVelocity): speedY never decreases,
\* never exceeds the terminal velocity, and has reached it once the calls
\* made times the gravity cover the distance from the starting speed.
C25_GravityMonotone ==
    pc = "gravity" =>
        /\ player.speedY <= terminalVelocity
        /\ obs.op = "applyGravity" =>
              /\ player.speedY = Min(obs.body.speedY + physGravity, terminalVelocity)
              /\ player.speedY >= obs.body.speedY
        /\ frame * physGravity >= terminalVelocity - hist.start.speedY =>
              player.speedY = terminalVelocity

\* the call that takes a body thrown up at jump speed to the terminal velocity
C25_Witness ==
    /\ pc = "gravity" /\ obs.op = "applyGravity"
    /\ hist.start.speedY = playerJumpPower
    /\ obs.body.speedY < terminalVelocity
    /\ obs.body.speedY + physGravity > terminalVelocity
    /\ player.speedY = terminalVelocity

\* C26: every applyMovement(body, 0) call leaves |speedX| no larger and
\* never flips its sign, 0 stays 0, and after 12 calls speedX is exactly 0
\* whatever it started from.
C26_FrictionConverges ==
    pc = "friction" =>
        /\ obs.op = "applyMovement" =>
              /\ Abs(player.speedX) <= Abs(obs.body.speedX)
              /\ player.speedX * obs.body.speedX >= 0
              /\ obs.body.speedX = 0 => player.speedX = 0
        /\ frame >= 12 => player.speedX = 0

\* the call that brings a body that started above the maximum speed to rest
C26_Witness ==
    /\ pc = "friction" /\ obs.op = "applyMovement"
    /\ hist.start.speedX > playerMaxSpeed
    /\ frame = 12
    /\ obs.body.speedX > 0
    /\ player.speedX = 0

\* C27: after updateSpatialGrid(objects), getNearbyObjects(q) contains every
\* object whose rectangle overlaps q's by checkRectCollision, also at
\* negative coordinates and for objects wider than a cell.
C27_GridComplete ==
    obs.op = "getNearbyObjects" =>
        \A k \in 1..Len(level.objects) :
            checkRectCollision(obs.query, level.objects[k]).hit
               => level.objects[k] \in obs.nearby

\* a query in the first cell right of 0 meets the far end of an object that
\* starts three cells to the left; the other object is not nearby
C27_Witness ==
    /\ obs.op = "getNearbyObjects"
    /\ obs.query.x >= 0
    /\ \E k \in 1..Len(level.objects) :
          /\ level.objects[k].x < -2 * gridSize
          /\ level.objects[k].width > gridSize
          /\ checkRectCollision(obs.query, level.objects[k]).hit
          /\ level.objects[k] \in obs.nearby
    /\ \E k \in 1..Len(level.objects) : level.objects[k] \notin obs.nearby

\* C28: a player that falls off the bottom of the level is killed: 20 frames
\* after its feet have reached the bottom edge a life is lost and the death
\* animation has been started.
C28_FallKills ==
    pc = "idle" /\ hist.bottomFrames >= 20 =>
        \/ engine.stats.lives < NewEngine(0).stats.lives
        \/ engine.deathAnimation.active

\* C29: in a frame in which the player stands on a linearly moving platform
\* the platform moves by (dirX * speed, dirY * speed) and the player is
\* carried by the same distance in x and in y, so its position relative to
\* the platform does not change.
C29_RideAlong ==
    hist.ride.on =>
        /\ hist.ride.platDx = hist.ride.dirX * hist.ride.speed
        /\ hist.ride.platDy = hist.ride.dirY * hist.ride.speed
        /\ hist.ride.playerDx = hist.ride.platDx
        /\ hist.ride.playerDy = hist.ride.platDy

\* C30: the platform type table is the same in every frame: nothing that
\* happens in a frame changes the record of a type, so a platform that
\* reaches the end of the level changes neither how the other platforms of
\* its type move nor how far a player on them is carried.
C30_TypeTableStatic ==
    /\ platformTypes = InitPlatformTypes
    /\ hist.ride.on /\ hist.ride.dirY = 0 => hist.ride.playerDx = hist.ride.platDx

\* ---------------------------------------------------------------------------
\* C31: a walker with patrolDistance > 0 that the patrol AI step finds at or
\* beyond the patrol distance from startX leaves that step with its
\* direction pointing toward startX.
C31_ReversesAtPatrolLimit ==
    (/\ obs.op = "update"
     /\ ~obs.enemy.isDead
     /\ obs.enemy.patrolDistance > 0
     /\ Abs(obs.enemy.x - obs.enemy.startX) >= obs.enemy.patrolDistance)
    => (obs.enemy.x - obs.enemy.startX) * obs.ai.direction < 0

\* ---------------------------------------------------------------------------
\* the flyer's last AI update started a dive
DiveStarted ==
    obs.op = "update" /\ ~obs.enemy.isDead /\ ~obs.enemy.isDiving /\ obs.updated.isDiving

\* C32: after a dive of a dive-pattern flyer has ended, none of its next
\* diveRecoveryTime (60) AI updates starts another dive, wherever the player is.
C32_DiveCooldown ==
    DiveStarted =>
        \/ obs.hist.sinceDive = NoDiveYet
        \/ obs.hist.sinceDive >= diveRecoveryTime

\* a second dive starts in the 61st AI update after the first one ended, the
\* player having been in dive position during the recovery
C32_Witness ==
    DiveStarted /\ obs.hist.sinceDive = diveRecoveryTime /\ obs.hist.tempted

\* ---------------------------------------------------------------------------
\* C33: every live player projectile has been through fewer Player.update
\* steps than its lifetime, which is at most 120: it is removed (by a hit, by
\* expiry or by leaving the world bounds) within 120 update steps of being
\* fired.
C33_ProjectilesExpire ==
    \A i \in 1..Len(player.projectiles) :
        /\ player.projectiles[i].age < ProjectileBaseLifetime + player.projectiles[i].charge
        /\ ProjectileBaseLifetime + player.projectiles[i].charge
              <= ProjectileBaseLifetime + maxChargeTime
        /\ ProjectileBaseLifetime + maxChargeTime = 120

\* a Player.update step removed a projectile whose lifetime ran out inside
\* the world bounds, while a younger one flies on
C33_Witness ==
    /\ obs.op = "Player.update"
    /\ Len(obs.player.projectiles) = 2
    /\ Len(player.projectiles) = 1
    /\ ProjectileLifetime(obs.player.projectiles[1]) = 1
    /\ ProjectileX60(obs.player.projectiles[1]) < 60 * (ProjectileMaxX - 100)
    /\ ProjectileY60(obs.player.projectiles[1]) < 60 * (ProjectileMaxY - 100)

\* ---------------------------------------------------------------------------
\* C34 (as stated): while a level whose gravity multiplier g differs from 1 is
\* played, every playing frame multiplies physics.gravity by g.
C34_MultipliedEveryPlayingFrame ==
    (/\ obs.op = "update"
     /\ level.gravity.num # level.gravity.den)
    => engine.gravity.num * obs.engine.gravity.den * level.gravity.den
         = obs.engine.gravity.num * level.gravity.num * engine.gravity.den

\* the product of the multipliers of the levels, each to the power of the
\* number of frames of that level that got past the early returns
LiveProduct(f) ==
    Pow(EngineLevels[1].gravity[f], hist.live[1])
      * Pow(EngineLevels[2].gravity[f], hist.live[2])
      * Pow(EngineLevels[3].gravity[f], hist.live[3])

\* C34 (amended): physics.gravity is multiplied by the level's g in every
\* playing frame that gets past the death animation and time limit returns
\* of updatePlaying, and in no other step: it always equals its initial value
\* times the product of g over those frames, whatever respawns, restarts and
\* level loads happened in between.
C34_GravityProduct ==
    engine.gravity.num * LiveProduct("den")
       = physGravity * LiveProduct("num") * engine.gravity.den

C34_Witness ==
    /\ obs.op = "update"
    /\ engine.gravity # obs.engine.gravity
    /\ budget.loads = 2
    /\ budget.restarts = 1
    /\ engine.stats.lives = 2
    /\ hist.live[1] >= 1
    /\ hist.live[2] >= 2

\* ---------------------------------------------------------------------------
\* C38: each player death costs exactly one life: a playerDeath call during
\* the death animation changes nothing, lives never becomes negative, and
\* the 120th playing frame after a death respawns the player with full
\* health if lives > 0 and otherwise sets the game state to GAME_OVER.
C38_DeathCostsOneLife ==
    /\ engine.stats.lives >= 0
    /\ (obs.op = "playerDeath" /\ obs.engine.deathAnimation.active)
          => (player = obs.player /\ engine = obs.engine)
    /\ (obs.op = "playerDeath" /\ ~obs.engine.deathAnimation.active)
          => /\ engine.stats.lives = obs.engine.stats.lives - 1
             /\ engine.deathAnimation.active
             /\ hist.sinceDeath = 0
    /\ obs.op = "update"
          => engine.stats.lives = obs.engine.stats.lives -
                (IF ~obs.engine.deathAnimation.active /\ engine.deathAnimation.active
                 THEN 1 ELSE 0)
    /\ engine.deathAnimation.active
          => hist.sinceDeath \in 0..(DeathAnimationDuration - 1)
    /\ (obs.op = "update" /\ obs.engine.deathAnimation.active
          /\ obs.since < DeathAnimationDuration - 1)
          => (engine.deathAnimation.active /\ engine.currentState = "playing")
    /\ (obs.op = "update" /\ obs.engine.deathAnimation.active
          /\ obs.since = DeathAnimationDuration - 1)
          => /\ ~engine.deathAnimation.active
             /\ IF engine.stats.lives > 0
                THEN /\ engine.currentState = "playing"
                     /\ engine.stats.health = engine.stats.maxHealth
                     /\ player.state = "idle"
                     /\ player.x = level.spawnX /\ player.y = level.spawnY
                ELSE engine.currentState = "game_over"

C38_Witness ==
    /\ obs.op = "update"
    /\ obs.since = DeathAnimationDuration - 1
    /\ engine.currentState = "game_over"
    /\ engine.stats.lives = 0
    /\ budget.restarts = 1

\* ---------------------------------------------------------------------------
\* C35: loot and defeat credit are produced only for kills: every enemy that
\* was counted in totalEnemiesDefeated was dead (health 0 after a stomp or a
\* projectile) when it was removed, and as long as only enemies that fell
\* below the kill-plane were removed, droppedItems stays empty.
C35_LootOnlyForKills ==
    /\ mgr.totalEnemiesDefeated =
          Cardinality({k \in 1..Len(hist.removals) : hist.removals[k].wasDead})
    /\ (\A k \in 1..Len(hist.removals) : ~hist.removals[k].wasDead)
          => mgr.droppedItems = << >>

\* ---------------------------------------------------------------------------
\* C36: at the end of every frame the player's invulnerable flag is true
\* if and only if invulnerabilityTime > 0.
C36_FlagMatchesTimer ==
    obs.op = "update" => (player.invulnerable <=> player.invulnerabilityTime > 0)

\* ---------------------------------------------------------------------------
\* the frame started with the walker in the live list and dead
DeadBefore ==
    /\ obs.op = "update"
    /\ ~obs.engine.deathAnimation.active
    /\ obs.mgr.enemies # << >>
    /\ obs.mgr.enemies[1].isDead

\* C37: a dead enemy that is still in the live list is inert: a frame leaves
\* it where it was, the enemy manager's update leaves the player and the
\* player's stats as they were (no damage, no knockback, no bounce, no
\* score), and the player's projectiles are removed only by their lifetime
\* and the level bounds, with no score for a hit.
C37_DeadEnemyInert ==
    DeadBefore =>
        /\ mgr.enemies # << >> =>
              /\ mgr.enemies[1].isDead
              /\ mgr.enemies[1].x = obs.mgr.enemies[1].x
              /\ mgr.enemies[1].y = obs.mgr.enemies[1].y
        /\ obs.afterEngine = [player |-> obs.player, engine |-> obs.engine]
        /\ engine.stats = obs.engine.stats
        /\ player.projectiles =
              playerUpdateProjectiles(obs.beforeProjectiles.projectiles,
                                      Len(obs.beforeProjectiles.projectiles), {})

C37_Witness ==
    /\ DeadBefore
    /\ mgr.enemies # << >>
    /\ \E i \in 1..Len(player.projectiles) :
          checkRectCollision(ProjectileBox(player.projectiles[i]),
                             EnemyBox(mgr.enemies[1])).hit

\* ---------------------------------------------------------------------------
\* C39: after the player-vs-platform phase of a frame the player's rectangle
\* overlaps no solid platform.
C39_NoOverlapAfterPhase ==
    obs.op = "update" =>
        \A k \in 1..Len(obs.platforms) :
            ~LookupType(platformTypes, obs.platforms[k].type).oneWay
               => ~checkRectCollision(player, obs.platforms[k]).hit

\* ---------------------------------------------------------------------------
\* C40: a dive-pattern flyer that is not diving moves in an update exactly as
\* the sine pattern prescribes: x changes by baseSpeed * direction and y is
\* baseY + amplitude * sin(patternTimer * frequency).
C40_SineWhenNotDiving ==
    (/\ obs.op = "update"
     /\ ~obs.enemy.isDead
     /\ obs.enemy.flyPattern = "dive"
     /\ ~obs.enemy.isDiving)
    => /\ obs.updated.x = obs.enemy.x + obs.enemy.baseSpeed * obs.enemy.direction
       /\ obs.updated.y = obs.enemy.baseY
             + waveOffset([obs.enemy EXCEPT !.patternTimer = obs.enemy.patternTimer + 1])

====
